---- MODULE Spec2Model ----
(***************************************************************************)
(* Options-analytics pipeline of sophie-lambda-option: expiration          *)
(* selection, per-contract IV/delta processing, validity and moneyness     *)
(* filtering, snapshot assembly and the two Lambda handlers.               *)
(*                                                                         *)
(* Numbers are scaled integers: prices and strikes in currency units,      *)
(* implied volatility and delta in hundredths, moneyness in thousandths,   *)
(* time in ticks of 1/TicksPerDay day.  A Python float is a record         *)
(* Num(x), None or NaN so that IEEE comparisons with NaN are false.        *)
(***************************************************************************)
EXTENDS Integers, Sequences, FiniteSets, TLC

VARIABLES
    now,                  \* get_current_utc_timestamp(), in ticks since day 0, 00:00
    pc,                   \* position of the operation / handler under analysis
    args,                 \* the remaining arguments of the call (ticker, flags, ...)
    contracts,              \* List[OptionData] handed to the calculator
    expiration_data_list, \* List[ExpirationData]: selector input, or the fetched chains
    raw_options_data,     \* Dict[str, List[raw row]] in insertion order
    underlying_price,     \* stock price handed to the processor
    env,                  \* what the external collaborators answer in this request
    result,               \* value returned (or exception raised) by the operation
    response              \* HTTP envelope returned by a handler

vars == <<now, pc, args, contracts, expiration_data_list, raw_options_data,
          underlying_price, env, result, response>>

-----------------------------------------------------------------------------
(* Bounds of the model *)

MaxGroups == 3
MaxTod == 1
MaxRows == 2
MaxKeys == 2
MaxTickerLen == 3
MaxFetched == 5

(* Granularity of the clock: ticks per day (a tick is 6 hours). *)
TicksPerDay == 4

-----------------------------------------------------------------------------
(* Python values *)

None == [k |-> "none"]
NaN == [k |-> "nan"]
Num(x) == [k |-> "num", v |-> x]
IsNum(a) == a.k = "num"

\* Python comparisons on Optional[float]; every comparison with NaN is False.
\* (The code never compares None: each site tests "is None" first.)
Le(a, b) == IsNum(a) /\ IsNum(b) /\ a.v <= b.v
Gt(a, b) == IsNum(a) /\ IsNum(b) /\ a.v > b.v
Lt(a, b) == IsNum(a) /\ IsNum(b) /\ a.v < b.v

Raise(e) == [kind |-> "raise", exc |-> e]
Ok(v) == [kind |-> "ok", val |-> v]

Abs(x) == IF x < 0 THEN -x ELSE x
Max(a, b) == IF a >= b THEN a ELSE b

\* All sequences over S of length 0..n
SeqUpTo(S, n) == UNION {[1..k -> S] : k \in 0..n}

-----------------------------------------------------------------------------
(* Expiration strings.  A string is known by its rank in str comparison    *)
(* (lex) and by what strptime("%Y-%m-%d") makes of it (ok, day).           *)
(* strftime("%Y-%m-%d") always yields the zero-padded form IsoStr(day).    *)

IsoStr(d) == [lex |-> d, ok |-> TRUE, day |-> d]
\* "2025-8-1": strptime accepts it, but it is another str than "2025-08-01"
\* and sorts after every zero-padded date of the year.
UnpaddedStr(d) == [lex |-> 1000 + d, ok |-> TRUE, day |-> d]
\* not a date at all: strptime raises ValueError
BadStr == [lex |-> 2000, ok |-> FALSE, day |-> 0]

ExpDays == {-3, 14, 15, 29, 31, 61}
ExpStrings == {IsoStr(d) : d \in ExpDays} \cup {UnpaddedStr(14), BadStr}

-----------------------------------------------------------------------------
(* src/utils/time_utils.py *)

get_target_expiration_periods ==
    << [label |-> "2w", days |-> 14], [label |-> "1m", days |-> 30],
       [label |-> "6w", days |-> 42], [label |-> "2m", days |-> 60] >>

Labels == {get_target_expiration_periods[i].label : i \in 1..4}

\* datetime of a parsed expiration: midnight UTC of its day
Midnight(day) == day * TicksPerDay

\* calculate_days_to_expiration(exp) at clock t: both truncated to the day,
\* difference in days, clamped at 0
calculate_days_to_expiration(day, t) == Max(day - (t \div TicksPerDay), 0)

\* calculate_target_dates(base_date): base_date + timedelta(days)
calculate_target_dates(base) ==
    [i \in 1..4 |-> base + get_target_expiration_periods[i].days * TicksPerDay]

\* key of min(): abs((x - target_date).days); timedelta.days is the floor
ClosestKey(day, target) == Abs((Midnight(day) - target) \div TicksPerDay)

\* min(exp_dates, key=...): the first element with the least key
RECURSIVE MinFirst(_, _, _)
MinFirst(days, target, i) ==
    IF i = Len(days) THEN days[i]
    ELSE LET rest == MinFirst(days, target, i + 1)
         IN IF ClosestKey(days[i], target) <= ClosestKey(rest, target)
            THEN days[i] ELSE rest

\* parse_expiration_date over the whole list (the list comprehension raises
\* on the first string strptime rejects)
ParseAll(all) ==
    IF \E i \in 1..Len(all) : ~all[i].ok
    THEN Raise("ValueError")
    ELSE Ok([i \in 1..Len(all) |-> all[i].day])

\* mutant: an empty list of expirations raises
find_closest_expiration_dates_RaisesOnEmpty(all, base, t) ==
    LET parsed == ParseAll(all) IN
    IF parsed.kind = "raise" THEN parsed
    ELSE IF Len(all) = 0 THEN Raise("ValueError")
    ELSE LET targets == calculate_target_dates(base)
             pick(i) == MinFirst(parsed.val, targets[i], 1)
         IN Ok([i \in 1..4 |->
                  [label |-> get_target_expiration_periods[i].label,
                   exp   |-> IsoStr(pick(i)),
                   days  |-> calculate_days_to_expiration(pick(i), t)]])

\* find_closest_expiration_dates(all_expirations, base_date) at clock t.
\* The dict is a sequence of entries in insertion order (2w, 1m, 6w, 2m).
find_closest_expiration_dates(all, base, t) ==
    LET parsed == ParseAll(all) IN
    IF parsed.kind = "raise" THEN parsed
    ELSE IF Len(all) = 0 THEN Ok(<<>>)
    ELSE LET targets == calculate_target_dates(base)
             pick(i) == MinFirst(parsed.val, targets[i], 1)
         IN Ok([i \in 1..4 |->
                  [label |-> get_target_expiration_periods[i].label,
                   exp   |-> IsoStr(pick(i)),
                   days  |-> calculate_days_to_expiration(pick(i), t)]])

-----------------------------------------------------------------------------
(* src/models/option_data.py *)

Str(s) == [k |-> "str", v |-> s]

\* OptionData(strike, last_price, implied_volatility, delta, option_type,
\* bid=..., ask=...): every other field defaults to None
OptionData(strike, last, iv, delta, type, bid, ask) ==
    [strike |-> strike, last_price |-> last, implied_volatility |-> iv,
     delta |-> delta, option_type |-> type, bid |-> bid, ask |-> ask,
     contract_symbol |-> None, last_trade_date |-> None,
     volume |-> None, open_interest |-> None,
     mid_price |-> None, moneyness |-> None, implied_volatility_bid |-> None,
     implied_volatility_mid |-> None, implied_volatility_ask |-> None]

\* ExpirationData(expiration, calls, puts): label and days default to None
ExpirationData(e, c, p) ==
    [expiration |-> e, calls |-> c, puts |-> p,
     days_to_expiration |-> None, expiration_label |-> None]

-----------------------------------------------------------------------------
(* src/utils/expiration_selector.py *)

select_target_expiration_dates(all, base, t) ==
    IF Len(all) = 0 THEN Raise("ValueError")
    ELSE find_closest_expiration_dates(all, base, t)

\* expiration_mapping[exp_date] = (label, days): a later label overwrites
\* an earlier one that selected the same date
InMapping(target, e) == \E i \in 1..Len(target) : target[i].exp = e
MappingAt_First(target, e) ==
    LET first == CHOOSE i \in 1..Len(target) :
                     /\ target[i].exp = e
                     /\ \A j \in 1..(i - 1) : target[j].exp # e
    IN target[first]

MappingAt(target, e) ==
    LET last == CHOOSE i \in 1..Len(target) :
                    /\ target[i].exp = e
                    /\ \A j \in (i + 1)..Len(target) : target[j].exp # e
    IN target[last]

\* the in-place stamping of the loop at lines 70-75
StampAll(list, target) ==
    [i \in 1..Len(list) |->
        IF InMapping(target, list[i].expiration)
        THEN [list[i] EXCEPT
                !.expiration_label = Str(MappingAt(target, list[i].expiration).label),
                !.days_to_expiration = Num(MappingAt(target, list[i].expiration).days)]
        ELSE list[i]]

\* mutant: the first group that is in the mapping left out
RECURSIVE KeepMapped_SkipsFirst(_, _)
KeepMapped_SkipsFirst(list, target) ==
    IF Len(list) = 0 THEN <<>>
    ELSE IF InMapping(target, Head(list).expiration)
         THEN LET RECURSIVE Keep(_)
                  Keep(l) == IF Len(l) = 0 THEN <<>>
                             ELSE IF InMapping(target, Head(l).expiration)
                                  THEN <<Head(l)>> \o Keep(Tail(l))
                                  ELSE Keep(Tail(l))
              IN Keep(Tail(list))
         ELSE KeepMapped_SkipsFirst(Tail(list), target)

RECURSIVE KeepMapped(_, _)
KeepMapped(list, target) ==
    IF Len(list) = 0 THEN <<>>
    ELSE IF InMapping(target, Head(list).expiration)
         THEN <<Head(list)>> \o KeepMapped(Tail(list), target)
         ELSE KeepMapped(Tail(list), target)

\* list.sort(key=days_to_expiration): stable, ascending
RECURSIVE InsertByDays(_, _)
InsertByDays(sorted, g) ==
    IF Len(sorted) = 0 THEN <<g>>
    ELSE IF Head(sorted).days_to_expiration.v <= g.days_to_expiration.v
         THEN <<Head(sorted)>> \o InsertByDays(Tail(sorted), g)
         ELSE <<g>> \o sorted

\* mutant: the sort at line 78 left out
SortByDays_Omitted(list) == list

RECURSIVE SortByDays(_)
SortByDays(list) ==
    IF Len(list) = 0 THEN <<>>
    ELSE InsertByDays(SortByDays(SubSeq(list, 1, Len(list) - 1)), list[Len(list)])

\* mutant: the parsable groups stamped before the selection raises
filter_expirations_by_target_periods_StampsBeforeRaising(list, t) ==
    IF Len(list) = 0 THEN [ret |-> Raise("ValueError"), list |-> list]
    ELSE LET all == [i \in 1..Len(list) |-> list[i].expiration]
             target == select_target_expiration_dates(all, t, t)
         IN IF target.kind = "raise"
            THEN [ret |-> target,
                  list |-> [i \in 1..Len(list) |->
                              IF list[i].expiration.ok
                              THEN [list[i] EXCEPT !.expiration_label = Str("2w"),
                                                   !.days_to_expiration = Num(0)]
                              ELSE list[i]]]
            ELSE LET stamped == StampAll(list, target.val)
                 IN [ret |-> Ok(SortByDays(KeepMapped(stamped, target.val))),
                     list |-> stamped]

\* filter_expirations_by_target_periods(list) at clock t: ret is the value
\* returned or the exception raised, list the argument after the call
\* (its groups are stamped in place).
filter_expirations_by_target_periods(list, t) ==
    IF Len(list) = 0 THEN [ret |-> Raise("ValueError"), list |-> list]
    ELSE LET all == [i \in 1..Len(list) |-> list[i].expiration]
             target == select_target_expiration_dates(all, t, t)
         IN IF target.kind = "raise" THEN [ret |-> target, list |-> list]
            ELSE LET stamped == StampAll(list, target.val)
                 IN [ret |-> Ok(SortByDays(KeepMapped(stamped, target.val))),
                     list |-> stamped]

-----------------------------------------------------------------------------
(* External library py_vollib.  What it returns for one contract is an     *)
(* oracle o chosen by the environment:                                     *)
(*   o.delta   Raises, or the magnitude of delta in hundredths             *)
(*   o.bid, o.mid, o.ask   Raises, or the solver's IV in hundredths        *)

Raises == [k |-> "raise"]
DeltaChoices == {Raises, Num(0), Num(50), Num(100)}
SolverChoices == {Raises, Num(0), Num(20), Num(500), Num(501)}
Oracles == [delta : DeltaChoices, bid : SolverChoices,
            mid : SolverChoices, ask : SolverChoices]

\* delta(flag, S, K, t, r, sigma): N(d1) for a call, N(d1) - 1 for a put;
\* NaN propagates through the formula
vollib_delta(flag, sigma, choice) ==
    IF choice = Raises THEN Raise("Exception")
    ELSE IF sigma = NaN THEN Ok(NaN)
    ELSE Ok(Num(IF flag = "c" THEN choice.v ELSE -choice.v))

\* implied_volatility(price, S, K, t, r, flag)
vollib_implied_volatility(choice) ==
    IF choice = Raises THEN Raise("Exception") ELSE Ok(choice)

-----------------------------------------------------------------------------
(* src/utils/time_utils.py, continued *)

\* calculate_time_to_expiration(expiration_date) at clock t, in ticks:
\* strptime may raise; the result is floored at one day, hence positive
calculate_time_to_expiration(exp, t) ==
    IF ~exp.ok THEN Raise("ValueError")
    ELSE Ok(Max(Midnight(exp.day) - t, TicksPerDay))

-----------------------------------------------------------------------------
(* src/utils/calculation_utils.py *)

\* mutant: a side that is None counted as a side that is 0
calculate_mid_price_NoneAsZero(bid, ask) ==
    LET b == IF bid = None THEN Num(0) ELSE bid
        a == IF ask = None THEN Num(0) ELSE ask
    IN IF Le(b, Num(0)) /\ Le(a, Num(0)) THEN Num(0)
       ELSE IF Le(b, Num(0)) THEN a
       ELSE IF Le(a, Num(0)) THEN b
       ELSE IF IsNum(b) /\ IsNum(a) THEN Num((b.v + a.v) \div 2)
       ELSE NaN

\* calculate_mid_price(bid, ask); prices of the model are even, so the
\* average is exact
calculate_mid_price(bid, ask) ==
    IF bid = None \/ ask = None THEN Num(0)
    ELSE IF Le(bid, Num(0)) /\ Le(ask, Num(0)) THEN Num(0)
    ELSE IF Le(bid, Num(0)) THEN ask
    ELSE IF Le(ask, Num(0)) THEN bid
    ELSE IF IsNum(bid) /\ IsNum(ask) THEN Num((bid.v + ask.v) \div 2)
    ELSE NaN

\* round(x, 3) of strike / current_price, in thousandths: round half to even
RoundDiv(n, d) ==
    LET q == n \div d
        r == n % d
    IN IF 2 * r > d \/ (2 * r = d /\ q % 2 = 1) THEN q + 1 ELSE q

\* calculate_moneyness(strike_price, current_price), in thousandths
calculate_moneyness(strike, price) ==
    IF price = Num(0) THEN Num(0)
    ELSE IF IsNum(strike) /\ IsNum(price)
         THEN Num(RoundDiv(1000 * strike.v, price.v))
         ELSE NaN

\* is_within_moneyness_range(moneyness, min_moneyness, max_moneyness)
is_within_moneyness_range(m, lo, hi) == Le(lo, m) /\ Le(m, hi)

\* safe_float_conversion(value)
safe_float_conversion(x) == IF x = None THEN Num(0) ELSE x

\* one solver call of calculate_implied_volatilities with its range check
\* 0 < iv < 5.0 and try/except
TripletIV(price, choice) ==
    IF ~Gt(price, Num(0)) THEN None
    ELSE LET r == vollib_implied_volatility(choice) IN
         IF r.kind = "raise" THEN None
         ELSE IF Lt(Num(0), r.val) /\ Lt(r.val, Num(500)) THEN r.val
         ELSE None

\* calculate_implied_volatilities(option, current_price, time_to_expiration,
\* risk_free_rate, option_type) with the solver answering as oracle o
calculate_implied_volatilities(strike, bid0, ask0, iv, price, tte, o) ==
    LET bid == safe_float_conversion(bid0)
        ask == safe_float_conversion(ask0)
        mid == calculate_mid_price(bid, ask)
        none == [impliedVolatilityYF |-> safe_float_conversion(iv),
                 impliedVolatilityBid |-> None,
                 impliedVolatilityMid |-> None,
                 impliedVolatilityAsk |-> None]
    IN IF Le(safe_float_conversion(strike), Num(0)) \/ Le(price, Num(0)) \/ tte <= 0
       THEN none
       ELSE [none EXCEPT !.impliedVolatilityBid = TripletIV(bid, o.bid),
                         !.impliedVolatilityMid = TripletIV(mid, o.mid),
                         !.impliedVolatilityAsk = TripletIV(ask, o.ask)]

-----------------------------------------------------------------------------
(* src/services/options_calculator.py *)

\* calculate_delta(underlying_price, strike_price, time_to_expiration,
\* implied_vol, option_type): None on invalid input or any exception
calculate_delta(price, strike, tte, iv, type, o) ==
    IF Le(price, Num(0)) \/ Le(strike, Num(0)) THEN None
    ELSE IF tte <= 0 THEN None
    ELSE IF Le(iv, Num(0)) \/ Gt(iv, Num(500)) THEN None
    ELSE IF type \notin {"c", "p"} THEN None
    ELSE LET r == vollib_delta(type, iv, o.delta) IN
         IF r.kind = "raise" THEN None ELSE r.val

\* mutant: the IV range check of process_options_with_iv left out
IvRejected_Omitted(iv) == iv = None

\* lines 193-198: "iv is None or iv <= 0 or iv > 5.0" drops the contract
IvRejected(iv) == iv = None \/ Le(iv, Num(0)) \/ Gt(iv, Num(500))

\* lines 200-267: the enriched copy of one contract that passed the check
ProcessOption(option, price, tte, o) ==
    LET iv == option.implied_volatility
        ivs == calculate_implied_volatilities(option.strike, option.bid,
                   option.ask, iv, price, tte, o)
    IN [option EXCEPT
          !.delta = calculate_delta(price, option.strike, tte, iv,
                                    option.option_type, o),
          !.mid_price =
              IF option.bid # None /\ option.ask # None
                 /\ Gt(option.bid, Num(0)) /\ Gt(option.ask, Num(0))
              THEN calculate_mid_price(option.bid, option.ask) ELSE None,
          !.implied_volatility_bid = ivs.impliedVolatilityBid,
          !.implied_volatility_mid = ivs.impliedVolatilityMid,
          !.implied_volatility_ask = ivs.impliedVolatilityAsk]

\* mutant: the loop ends at the first contract that is dropped
RECURSIVE ProcessLoop_StopsAtFailure(_, _, _, _, _)
ProcessLoop_StopsAtFailure(options, price, tte, os, i) ==
    IF i > Len(options) THEN <<>>
    ELSE IF IvRejected(options[i].implied_volatility) THEN <<>>
    ELSE <<ProcessOption(options[i], price, tte, os[i])>>
         \o ProcessLoop_StopsAtFailure(options, price, tte, os, i + 1)

RECURSIVE ProcessLoop(_, _, _, _, _)
ProcessLoop(options, price, tte, os, i) ==
    IF i > Len(options) THEN <<>>
    ELSE (IF IvRejected(options[i].implied_volatility) THEN <<>>
          ELSE <<ProcessOption(options[i], price, tte, os[i])>>)
         \o ProcessLoop(options, price, tte, os, i + 1)

\* process_options_with_iv(options, underlying_price, expiration_date) at
\* clock t; os[i] is the library's oracle for options[i]
process_options_with_iv(options, price, exp, t, os) ==
    LET tte == calculate_time_to_expiration(exp, t) IN
    IF tte.kind = "raise" THEN <<>>
    ELSE IF tte.val <= 0 THEN <<>>
    ELSE ProcessLoop(options, price, tte.val, os, 1)

-----------------------------------------------------------------------------
(* src/utils/data_formatter.py *)

\* characters of the model's tickers
AlnumChars == {"S", "P", "Y", "V", "I", "X", "B", "R", "K", "s", "p", "y"}

Upper(c) == CASE c = "s" -> "S" [] c = "p" -> "P" [] c = "y" -> "Y" [] OTHER -> c

RECURSIVE LStrip(_)
LStrip(w) == IF Len(w) > 0 /\ Head(w) = " " THEN LStrip(Tail(w)) ELSE w

RECURSIVE RStrip(_)
RStrip(w) ==
    IF Len(w) > 0 /\ w[Len(w)] = " " THEN RStrip(SubSeq(w, 1, Len(w) - 1)) ELSE w

\* ticker.strip().upper()
CleanTicker(w) == LET x == RStrip(LStrip(w)) IN [i \in 1..Len(x) |-> Upper(x[i])]

\* cleaned.replace('.', '').replace('-', '').isalnum()
IsAlnumBesidesDotHyphen(w) ==
    LET kept == SelectSeq(w, LAMBDA c : c \notin {".", "-"})
    IN Len(kept) > 0 /\ \A i \in 1..Len(kept) : kept[i] \in AlnumChars

\* validate_ticker_symbol(ticker)
validate_ticker_symbol(ticker) ==
    IF ticker = None THEN Raise("ValueError")
    ELSE IF Len(ticker.v) = 0 THEN Raise("ValueError")
    ELSE IF ~IsAlnumBesidesDotHyphen(CleanTicker(ticker.v)) THEN Raise("ValueError")
    ELSE Ok(Str(CleanTicker(ticker.v)))

\* mutant: the strike / last price test of filter_valid_options left out
InvalidStrikeOrPrice_Omitted(option) == FALSE

\* line 193
InvalidStrikeOrPrice(option) ==
    \/ Le(option.strike, Num(0))
    \/ option.last_price = None
    \/ Le(option.last_price, Num(0))

\* filter_valid_options(options)
filter_valid_options(options) ==
    SelectSeq(options, LAMBDA option :
        /\ ~InvalidStrikeOrPrice(option)
        /\ ~(option.implied_volatility = None /\ option.delta = None))

-----------------------------------------------------------------------------
(* src/services/data_processor.py *)

\* values of a raw provider row: a number, None, a missing key, or a value
\* float() rejects
Missing == [k |-> "missing"]
Bad == [k |-> "bad"]

RawRow(type, strike, last, iv, bid, ask) ==
    [option_type |-> type, strike |-> strike, last_price |-> last,
     implied_volatility |-> iv, bid |-> bid, ask |-> ask,
     volume |-> Missing, open_interest |-> Missing]

\* float(raw.get(key, 0)): TypeError on None, ValueError on a bad string
FloatOrZero(x) ==
    IF x = Missing THEN Ok(Num(0))
    ELSE IF x = None THEN Raise("TypeError")
    ELSE IF x = Bad THEN Raise("ValueError")
    ELSE Ok(x)

\* float(raw.get(key, 0)) if raw.get(key) is not None else None
FloatOrNone(x) ==
    IF x = Missing \/ x = None THEN Ok(None)
    ELSE IF x = Bad THEN Raise("ValueError")
    ELSE Ok(x)

\* int(raw.get(key, 0)) if raw.get(key) is not None else None: ValueError on
\* a bad string and on NaN
IntOrNone(x) ==
    IF x = Missing \/ x = None THEN Ok(None)
    ELSE IF x = Bad \/ x = NaN THEN Raise("ValueError")
    ELSE Ok(x)

\* _convert_raw_options_to_objects(raw_options): a row whose conversion
\* raises ValueError or TypeError is logged and skipped
RECURSIVE convert_raw_options_to_objects(_)
convert_raw_options_to_objects(rows) ==
    IF Len(rows) = 0 THEN <<>>
    ELSE LET r == Head(rows)
             strike == FloatOrZero(r.strike)
             last == FloatOrNone(r.last_price)
             iv == FloatOrZero(r.implied_volatility)
             bid == FloatOrNone(r.bid)
             ask == FloatOrNone(r.ask)
             vol == IntOrNone(r.volume)
             oi == IntOrNone(r.open_interest)
             rest == convert_raw_options_to_objects(Tail(rows))
         IN IF \E x \in {strike, last, iv, bid, ask, vol, oi} : x.kind = "raise"
            THEN rest
            ELSE <<[OptionData(strike.val, last.val, iv.val, None,
                               r.option_type, bid.val, ask.val)
                      EXCEPT !.volume = vol.val,
                             !.open_interest = oi.val]>> \o rest

\* mutant: the upper moneyness bound taken as exclusive
WithinRange_Exclusive(m, lo, hi) == Le(lo, m) /\ Lt(m, hi)

\* lines 82-92: stamp moneyness, keep the contract when it is in range
WithinRange(m, lo, hi) == is_within_moneyness_range(m, lo, hi)

RECURSIVE MoneynessFilter(_, _, _, _)
MoneynessFilter(options, price, lo, hi) ==
    IF Len(options) = 0 THEN <<>>
    ELSE LET m == calculate_moneyness(Head(options).strike, price)
             rest == MoneynessFilter(Tail(options), price, lo, hi)
         IN IF WithinRange(m, lo, hi)
            THEN <<[Head(options) EXCEPT !.moneyness = m]>> \o rest
            ELSE rest

\* the same oracle for each contract of a list
EachOracle(options, o) == [i \in 1..Len(options) |-> o]

\* lines 57-112: the ExpirationData built for one key of the raw mapping
StructureOne(key, rows, price, lo, hi, t, o) ==
    LET side(type) ==
            LET raw == SelectSeq(rows, LAMBDA r : r.option_type = type)
                objs == convert_raw_options_to_objects(raw)
                processed == process_options_with_iv(objs, price, key, t,
                                                     EachOracle(objs, o))
            IN MoneynessFilter(filter_valid_options(processed), price, lo, hi)
    IN ExpirationData(key, side("c"), side("p"))

\* list.sort(key=expiration): stable, ascending in str order
RECURSIVE InsertByExpiration(_, _)
InsertByExpiration(sorted, g) ==
    IF Len(sorted) = 0 THEN <<g>>
    ELSE IF Head(sorted).expiration.lex <= g.expiration.lex
         THEN <<Head(sorted)>> \o InsertByExpiration(Tail(sorted), g)
         ELSE <<g>> \o sorted

\* mutant: the sort at line 114 left out
SortByExpiration_Omitted(list) == list

RECURSIVE SortByExpiration(_)
SortByExpiration(list) ==
    IF Len(list) = 0 THEN <<>>
    ELSE InsertByExpiration(SortByExpiration(SubSeq(list, 1, Len(list) - 1)),
                            list[Len(list)])

\* default min_moneyness / max_moneyness, in thousandths
DefaultRange == [lo |-> Num(850), hi |-> Num(1150)]

\* structure_options_by_expiration(raw_options_data, underlying_price,
\* min_moneyness, max_moneyness) at clock t with library oracle o
structure_options_by_expiration(raw, price, lo, hi, t, o) ==
    SortByExpiration([i \in 1..Len(raw) |->
        StructureOne(raw[i].key, raw[i].rows, price, lo, hi, t, o)])

\* filter_expiration_dates_by_validity(expiration_dates,
\* min_options_per_expiration); no caller in the pipeline
filter_expiration_dates_by_validity(list, min) ==
    SelectSeq(list, LAMBDA e : Len(e.calls) + Len(e.puts) >= min)

\* mutant: the fallback yields an empty list instead of the unfiltered one
FilterOrFallback_Empty(list, t) ==
    LET r == filter_expirations_by_target_periods(list, t)
    IN IF r.ret.kind = "ok" THEN r.ret ELSE Ok(<<>>)

\* mutant: the try/except around the target filter left out
FilterOrFallback_Propagates(list, t) ==
    filter_expirations_by_target_periods(list, t).ret

\* lines 199-211: filter to the target periods; on any exception keep the
\* list as it is
FilterOrFallback(list, t) ==
    LET r == filter_expirations_by_target_periods(list, t)
    IN IF r.ret.kind = "ok" THEN r.ret ELSE Ok(r.list)

\* a timestamp as the fetcher hands it over: a datetime, or (as the test
\* doubles do) its ISO text
Datetime == [k |-> "datetime"]
IsoText == [k |-> "isotext"]

\* lines 198-211: the expiration list of the snapshot
TargetDates(structured, flag, t) ==
    IF flag THEN FilterOrFallback(structured, t) ELSE Ok(structured)

\* lines 213-236: the MarketData object
MarketData(validated_ticker, price, vix, data_ts, vix_ts, dates) ==
    IF dates.kind = "raise" THEN dates
    ELSE Ok([ticker |-> validated_ticker,
             stock |-> [price |-> price, previous_close |-> price,
                        percent_change |-> Num(0),
                        timestamp |-> IF data_ts = None THEN Datetime ELSE data_ts],
             vix |-> [value |-> vix, previous_close |-> vix,
                      percent_change |-> Num(0),
                      timestamp |-> IF vix_ts = None THEN Datetime ELSE vix_ts],
             expiration_dates |-> dates.val])

\* create_market_data_response(ticker, stock_price, vix_value,
\* raw_options_data, data_timestamp, vix_timestamp, filter_expirations=flag)
\* at clock t; a timestamp of None becomes the current time
create_market_data_response(ticker, price, vix, raw, data_ts, vix_ts, flag, t, o) ==
    LET validated == validate_ticker_symbol(ticker) IN
    IF validated.kind = "raise" THEN validated
    ELSE MarketData(validated.val, price, vix, data_ts, vix_ts,
             TargetDates(structure_options_by_expiration(raw, price,
                             DefaultRange.lo, DefaultRange.hi, t, o), flag, t))

-----------------------------------------------------------------------------
(* Specification SpecSel: the expiration selector applied to any list of   *)
(* groups at any time of day.                                              *)

Idle == [kind |-> "idle"]

SampleCall == OptionData(Num(100), Num(2), Num(20), None, "c", None, None)

SelGroups ==
    {ExpirationData(e, c, <<>>) : e \in ExpStrings, c \in {<<>>, <<SampleCall>>}}

AllExpirations(list) == [i \in 1..Len(list) |-> list[i].expiration]

InitSel ==
    /\ now \in 0..MaxTod
    /\ pc = "start"
    /\ expiration_data_list \in SeqUpTo(SelGroups, MaxGroups)
    /\ args = Idle
    /\ contracts = <<>>
    /\ raw_options_data = <<>>
    /\ underlying_price = None
    /\ env = Idle
    /\ result = Idle
    /\ response = Idle

\* find_closest_expiration_dates(all_expirations) with base_date = None
FindClosest ==
    /\ pc = "start"
    /\ result' = find_closest_expiration_dates(
                     AllExpirations(expiration_data_list), now, now)
    /\ pc' = "found"
    /\ UNCHANGED <<now, args, contracts, expiration_data_list, raw_options_data,
                   underlying_price, env, response>>

\* filter_expirations_by_target_periods(expiration_data_list)
FilterTargets ==
    /\ pc = "start"
    /\ LET r == filter_expirations_by_target_periods(expiration_data_list, now)
       IN /\ result' = r.ret
          /\ expiration_data_list' = r.list
    /\ pc' = "filtered"
    /\ UNCHANGED <<now, args, contracts, raw_options_data, underlying_price,
                   env, response>>

NextSel == FindClosest \/ FilterTargets

SpecSel == InitSel /\ [][NextSel]_vars

-----------------------------------------------------------------------------
(* Claims on the selector *)

\* exact distance, in ticks, between an expiration's midnight and a target
Distance(day, target) == Abs(Midnight(day) - target)

Count(seq, x) == Cardinality({i \in 1..Len(seq) : seq[i] = x})

\* C5: for each target period and any time of day, find_closest_expiration_dates
\* selects an expiration at minimal absolute distance from now + period, and
\* among equally close expirations the one that comes first in the input list.
C5_ClosestFirstMin ==
    (pc = "found" /\ result.kind = "ok" /\ Len(result.val) = 4) =>
        LET all == AllExpirations(expiration_data_list)
            targets == calculate_target_dates(now)
        IN \A i \in 1..4 :
              \E j \in 1..Len(all) :
                 /\ result.val[i].exp = IsoStr(all[j].day)
                 /\ \A m \in 1..Len(all) :
                       Distance(all[j].day, targets[i]) <= Distance(all[m].day, targets[i])
                 /\ \A m \in 1..(j - 1) :
                       Distance(all[j].day, targets[i]) < Distance(all[m].day, targets[i])

\* C6: filter_expirations_by_target_periods returns exactly the input groups
\* whose expiration equals one of the dates selected for the four periods,
\* each stamped with a label that selected it and that label's days, every
\* other group discarded, sorted ascending by daysToExpiration.
C6_FilterKeepsSelected ==
    (pc = "filtered" /\ result.kind = "ok") =>
        LET sel == find_closest_expiration_dates(
                       AllExpirations(expiration_data_list), now, now).val
            out == result.val
        IN /\ \A i \in 1..Len(expiration_data_list) :
                LET g == expiration_data_list[i] IN
                Count(out, g) =
                    IF \E k \in 1..4 : sel[k].exp = g.expiration
                    THEN Count(expiration_data_list, g) ELSE 0
           /\ \A i \in 1..Len(out) :
                /\ Count(expiration_data_list, out[i]) > 0
                /\ \E k \in 1..4 :
                      /\ sel[k].exp = out[i].expiration
                      /\ out[i].expiration_label = Str(sel[k].label)
                      /\ out[i].days_to_expiration = Num(sel[k].days)
           /\ \A i \in 1..(Len(out) - 1) :
                out[i].days_to_expiration.v <= out[i + 1].days_to_expiration.v

\* C6 witness: a call that kept two groups, discarded one, and had to reorder
C6_Witness ==
    /\ pc = "filtered" /\ result.kind = "ok"
    /\ Len(result.val) = 2 /\ Len(expiration_data_list) = 3
    /\ result.val[1].days_to_expiration.v < result.val[2].days_to_expiration.v
    /\ \E i, j \in 1..3 : i < j /\ expiration_data_list[i] = result.val[2]
                                /\ expiration_data_list[j] = result.val[1]

-----------------------------------------------------------------------------
(* Specification SpecChain: process_options_with_iv applied to any list of *)
(* contracts, with the library answering per contract.                     *)

ChainIVs == {None, Num(0), Num(20), Num(500), Num(501), NaN}

ChainContracts ==
    {OptionData(Num(100), Num(2), iv, None, "c", Num(2), Num(4)) : iv \in ChainIVs}
    \cup {OptionData(Num(100), Num(2), Num(20), None, "p", None, Num(4)),
          OptionData(Num(0), Num(2), Num(20), None, "c", Num(2), Num(4)),
          OptionData(Num(100), None, Num(20), None, "p", Num(0), Num(0)),
          OptionData(Num(100), Num(2), Num(20), None, "x", Num(2), Num(4))}

ChainOracles ==
    { [delta |-> Raises, bid |-> Raises, mid |-> Num(20), ask |-> Num(500)],
      [delta |-> Num(50), bid |-> Num(20), mid |-> Num(501), ask |-> Num(0)],
      [delta |-> Num(100), bid |-> Num(500), mid |-> Num(20), ask |-> Raises] }

InitChain ==
    /\ now = 0
    /\ pc = "start"
    /\ args \in [expiration_date : {IsoStr(14), IsoStr(-3), BadStr}]
    /\ contracts \in SeqUpTo(ChainContracts, MaxRows)
    /\ expiration_data_list = <<>>
    /\ raw_options_data = <<>>
    /\ underlying_price \in {Num(0), Num(100)}
    /\ env \in [oracles : [1..Len(contracts) -> ChainOracles]]
    /\ result = Idle
    /\ response = Idle

\* process_options_with_iv(contracts, underlying_price, expiration_date)
ProcessChain ==
    /\ pc = "start"
    /\ result' = Ok(process_options_with_iv(contracts, underlying_price,
                        args.expiration_date, now, env.oracles))
    /\ pc' = "processed"
    /\ UNCHANGED <<now, args, contracts, expiration_data_list, raw_options_data,
                   underlying_price, env, response>>

NextChain == ProcessChain

SpecChain == InitChain /\ [][NextChain]_vars

-----------------------------------------------------------------------------
(* Claims on the calculator *)

InIvRange(x) == Lt(Num(0), x) /\ Le(x, Num(500))

\* the IV computeIV would establish for a contract from its last price:
\* calculate_implied_volatility(last_price, S, K, t, type) with the solver
\* answering as o.mid answers
ComputableFromLast(option, price, o) ==
    /\ option.last_price # None
    /\ Gt(option.last_price, Num(0)) /\ Gt(price, Num(0)) /\ Gt(option.strike, Num(0))
    /\ option.option_type \in {"c", "p"}
    /\ InIvRange(o.mid)

\* C2: a contract whose stored IV is absent or outside (0, 5.0] is not
\* dropped outright: it is dropped only when computing its IV from lastPrice
\* also fails.  Stated for a one-contract chain: if the stored IV is unusable
\* but the IV is computable from lastPrice, the contract is in the output.
C2_InvalidIvRecomputed ==
    (/\ pc = "processed" /\ Len(contracts) = 1 /\ args.expiration_date.ok
     /\ ~InIvRange(contracts[1].implied_volatility)
     /\ ComputableFromLast(contracts[1], underlying_price, env.oracles[1]))
    => Len(result.val) = 1

\* C3: every contract in the output of process_options_with_iv has a delta
\* that is null or in [-1, 1] and an implied volatility that is null or in
\* (0, 5.0].
C3_OutputRanges ==
    pc = "processed" =>
        \A i \in 1..Len(result.val) :
            LET c == result.val[i] IN
            /\ c.delta = None \/ (Le(Num(-100), c.delta) /\ Le(c.delta, Num(100)))
            /\ c.implied_volatility = None \/ InIvRange(c.implied_volatility)

\* what process_options_with_iv returns for contract i handed over alone
Alone(i) ==
    process_options_with_iv(<<contracts[i]>>, underlying_price,
        args.expiration_date, now, <<env.oracles[i]>>)

RECURSIVE ConcatAlone(_)
ConcatAlone(i) == IF i > Len(contracts) THEN <<>> ELSE Alone(i) \o ConcatAlone(i + 1)

\* C13: process_options_with_iv never raises for any list of contracts: a
\* contract whose processing fails is omitted, every other contract's output
\* is the same as if the failing contract were absent from the input, and the
\* output preserves the input order of the surviving contracts.  The result
\* is the concatenation, in input order, of what each contract yields when it
\* is processed alone (nothing for a contract that fails).
C13_ContractsIndependent ==
    pc = "processed" =>
        /\ result.kind = "ok"
        /\ \A i \in 1..Len(contracts) : Len(Alone(i)) <= 1
        /\ result.val = ConcatAlone(1)

\* C13 witness: of two contracts the first failed (stored IV above 5.0) and
\* the second came back as it does when processed alone
C13_Witness ==
    /\ pc = "processed" /\ Len(contracts) = 2
    /\ contracts[1].implied_volatility = Num(501)
    /\ Alone(1) = <<>>
    /\ Len(result.val) = 1 /\ result.val = Alone(2)
    /\ result.val[1].implied_volatility_mid # None

-----------------------------------------------------------------------------
(* Specification SpecStruct: structure_options_by_expiration and           *)
(* create_market_data_response applied to any raw mapping.                 *)

StructKeys == {IsoStr(14), IsoStr(61), IsoStr(-3), BadStr}

StructRows ==
    {RawRow(type, Num(3000), Num(2), Num(20), Missing, Missing) : type \in {"c", "p"}}
    \cup {RawRow("c", strike, Num(2), Num(20), Num(2), Num(4)) :
            strike \in {Num(0), Num(-2), Num(2548), Num(2549), Num(3451), Num(3452)}}
    \cup {RawRow("p", Num(3000), last, Num(20), Missing, Num(4)) :
            last \in {None, Num(0), Missing, Bad}}
    \cup {RawRow("c", Num(3000), Num(2), iv, None, None) : iv \in {Missing, None, NaN}}

StructOracles ==
    { [delta |-> Num(50), bid |-> Num(20), mid |-> Num(20), ask |-> Num(500)],
      [delta |-> Raises, bid |-> Raises, mid |-> Num(501), ask |-> Num(0)] }

Ranges == {DefaultRange, [lo |-> Num(0), hi |-> Num(1150)]}

Tickers == {Str(<<"s", "p", "y", " ">>), Str(<<"B", "R", "K", ".", "B">>),
            Str(<<"^", "V", "I", "X">>)}

DistinctSeqs(S, n) ==
    {q \in SeqUpTo(S, n) : \A i, j \in 1..Len(q) : i # j => q[i] # q[j]}

\* the rows of rs that f puts under key number k, in their order
RECURSIVE RowsUnder(_, _, _, _)
RowsUnder(rs, f, k, i) ==
    IF i > Len(rs) THEN <<>>
    ELSE (IF f[i] = k THEN <<rs[i]>> ELSE <<>>) \o RowsUnder(rs, f, k, i + 1)

\* a dict of expiration -> rows, in insertion order
RawMapping(ks, rs, f) ==
    [k \in 1..Len(ks) |-> [key |-> ks[k], rows |-> RowsUnder(rs, f, k, 1)]]

InitStruct ==
    /\ now = 0
    /\ pc = "start"
    /\ args = Idle
    /\ contracts = <<>>
    /\ expiration_data_list = <<>>
    /\ \E ks \in DistinctSeqs(StructKeys, MaxKeys), rs \in SeqUpTo(StructRows, MaxRows) :
          \E f \in [1..Len(rs) -> 1..Len(ks)] :
             raw_options_data = RawMapping(ks, rs, f)
    /\ underlying_price \in {Num(0), Num(3000)}
    /\ env \in [oracle : StructOracles]
    /\ result = Idle
    /\ response = Idle

\* structure_options_by_expiration(raw_options_data, underlying_price,
\* min_moneyness, max_moneyness)
StructureOptions ==
    /\ pc = "start"
    /\ \E range \in Ranges :
          /\ args' = range
          /\ result' = Ok(structure_options_by_expiration(raw_options_data,
                              underlying_price, range.lo, range.hi, now, env.oracle))
    /\ pc' = "structured"
    /\ UNCHANGED <<now, contracts, expiration_data_list, raw_options_data,
                   underlying_price, env, response>>

\* create_market_data_response(ticker, stock_price, vix_value,
\* raw_options_data, filter_expirations=flag)
CreateMarketData ==
    /\ pc = "start"
    /\ \E ticker \in Tickers, flag \in BOOLEAN :
          /\ args' = [ticker |-> ticker, filter_expirations |-> flag]
          /\ result' = create_market_data_response(ticker, underlying_price,
                           Num(18), raw_options_data, None, None, flag, now,
                           env.oracle)
    /\ pc' = "snapshot"
    /\ UNCHANGED <<now, contracts, expiration_data_list, raw_options_data,
                   underlying_price, env, response>>

NextStruct == StructureOptions \/ CreateMarketData

SpecStruct == InitStruct /\ [][NextStruct]_vars

-----------------------------------------------------------------------------
(* Claims on the data processor *)

\* the expiration groups a finished call returned
OutputGroups ==
    IF pc = "structured" THEN result.val
    ELSE IF pc = "snapshot" /\ result.kind = "ok" THEN result.val.expiration_dates
    ELSE <<>>

AllContracts(g) == g.calls \o g.puts

\* C1: no contract with strike <= 0, or with lastPrice null or <= 0, appears
\* in the calls or puts of any group returned by
\* structure_options_by_expiration, nor in a snapshot built from it.
C1_NoInvalidContract ==
    \A i \in 1..Len(OutputGroups) :
        LET cs == AllContracts(OutputGroups[i]) IN
        \A j \in 1..Len(cs) :
            ~(\/ Le(cs[j].strike, Num(0))
              \/ cs[j].last_price = None
              \/ Le(cs[j].last_price, Num(0)))

\* C1 witness: a mapping holding a zero-strike row with a usable IV and a
\* valid row was structured with lo = 0 (so the moneyness range would have
\* admitted the zero strike), and only the valid row came back
C1_Witness ==
    /\ pc = "structured" /\ args.lo = Num(0) /\ underlying_price = Num(3000)
    /\ Len(raw_options_data) = 1 /\ raw_options_data[1].key = IsoStr(14)
    /\ Len(raw_options_data[1].rows) = 2
    /\ \E i \in 1..2 : /\ raw_options_data[1].rows[i].strike = Num(0)
                       /\ raw_options_data[1].rows[i].implied_volatility = Num(20)
    /\ Len(result.val) = 1 /\ Len(AllContracts(result.val[1])) = 1

\* strike / underlying to the nearest thousandth, 0 for a zero underlying
NearestThousandth(strike, price) ==
    IF price = 0 THEN 0
    ELSE LET q == (1000 * strike) \div price IN
         CHOOSE m \in {q, q + 1} : 2 * Abs(1000 * strike - m * price) <= price

\* contracts of one side that survive process_options_with_iv and the
\* validity filter
Survivors(rows, type, key) ==
    LET objs == convert_raw_options_to_objects(
                    SelectSeq(rows, LAMBDA r : r.option_type = type))
    IN filter_valid_options(process_options_with_iv(objs, underlying_price, key,
                                now, EachOracle(objs, env.oracle)))

\* the survivors whose moneyness is in [lo, hi], each carrying it
ExpectedKept(surv, lo, hi) ==
    LET M(c) == NearestThousandth(c.strike.v, underlying_price.v)
        kept == SelectSeq(surv, LAMBDA c : lo.v <= M(c) /\ M(c) <= hi.v)
    IN [i \in 1..Len(kept) |-> [kept[i] EXCEPT !.moneyness = Num(M(kept[i]))]]

\* C4: structure_options_by_expiration keeps a contract that survived
\* process_options_with_iv and the validity filter if and only if its
\* moneyness (strike / underlying rounded to 3 decimals, 0.0 when the
\* underlying is 0) satisfies lo <= moneyness <= hi, both bounds inclusive,
\* and every kept contract carries that moneyness.
C4_MoneynessInclusive ==
    pc = "structured" =>
        /\ Len(result.val) = Len(raw_options_data)
        /\ \A i \in 1..Len(raw_options_data) :
              LET e == raw_options_data[i] IN
              \E j \in 1..Len(result.val) :
                 /\ result.val[j].expiration = e.key
                 /\ result.val[j].calls =
                        ExpectedKept(Survivors(e.rows, "c", e.key), args.lo, args.hi)
                 /\ result.val[j].puts =
                        ExpectedKept(Survivors(e.rows, "p", e.key), args.lo, args.hi)

\* C4 witness: of two calls at strikes 3451 and 3452 on an underlying of
\* 3000, the one whose moneyness rounds to the upper bound 1.150 was kept
\* and the other, at 1.151, was dropped
C4_Witness ==
    /\ pc = "structured" /\ underlying_price = Num(3000)
    /\ Len(raw_options_data) = 1 /\ Len(raw_options_data[1].rows) = 2
    /\ raw_options_data[1].rows[1].strike = Num(3451)
    /\ raw_options_data[1].rows[2].strike = Num(3452)
    /\ Len(result.val[1].calls) = 1
    /\ result.val[1].calls[1].moneyness = args.hi

Structured ==
    structure_options_by_expiration(raw_options_data, underlying_price,
        DefaultRange.lo, DefaultRange.hi, now, env.oracle)

\* C7: when filter_expirations is true and the target selection raises,
\* create_market_data_response does not raise: it returns a snapshot whose
\* expiration list is exactly the unfiltered output of
\* structure_options_by_expiration.
C7_FilterFailureFallsBack ==
    (/\ pc = "snapshot" /\ args.filter_expirations
     /\ validate_ticker_symbol(args.ticker).kind = "ok"
     /\ filter_expirations_by_target_periods(Structured, now).ret.kind = "raise")
    => /\ result.kind = "ok"
       /\ result.val.expiration_dates = Structured

\* C7 witness: a mapping with an unparseable key and a dated key holding a
\* valid contract came back whole from a filtering call
C7_Witness ==
    /\ pc = "snapshot" /\ args.filter_expirations /\ result.kind = "ok"
    /\ \E i \in 1..Len(raw_options_data) : raw_options_data[i].key = BadStr
    /\ Len(result.val.expiration_dates) = 2
    /\ \E j \in 1..2 : Len(AllContracts(result.val.expiration_dates[j])) > 0

\* C8 as stated: given an empty raw options mapping,
\* create_market_data_response raises DataFetchError (whose message
\* contains the ticker).
C8_EmptyMappingRaises ==
    (/\ pc = "snapshot" /\ raw_options_data = <<>>
     /\ validate_ticker_symbol(args.ticker).kind = "ok")
    => (result.kind = "raise" /\ result.exc = "DataFetchError")

\* C8 amended: given an empty raw options mapping, create_market_data_response
\* raises no DataFetchError: for a ticker that validates it returns, with or
\* without filter_expirations, a snapshot for that ticker whose expiration
\* list is empty; for any other ticker it raises ValueError.
C8_EmptyMappingEmptySnapshot ==
    (pc = "snapshot" /\ raw_options_data = <<>>) =>
        IF args.ticker \in {Str(<<"s", "p", "y", " ">>), Str(<<"B", "R", "K", ".", "B">>)}
        THEN /\ result.kind = "ok"
             /\ result.val.expiration_dates = <<>>
             /\ result.val.ticker \in {Str(<<"S", "P", "Y">>), Str(<<"B", "R", "K", ".", "B">>)}
        ELSE result = Raise("ValueError")

\* C8 witness: a filtering call on the empty mapping returned a snapshot
C8_Witness ==
    /\ pc = "snapshot" /\ raw_options_data = <<>> /\ args.filter_expirations
    /\ result.kind = "ok" /\ result.val.expiration_dates = <<>>

\* the target filter was asked for and did not raise
FilterSucceeded ==
    /\ args.filter_expirations
    /\ filter_expirations_by_target_periods(Structured, now).ret.kind = "ok"

\* C15: the expiration list of every snapshot returned by
\* create_market_data_response is ordered whatever the order of the keys of
\* the raw mapping: ascending by expiration date string when target filtering
\* is disabled or has fallen back, ascending by daysToExpiration when target
\* filtering succeeded.
C15_SnapshotOrdered ==
    (pc = "snapshot" /\ result.kind = "ok") =>
        LET out == result.val.expiration_dates IN
        \A i \in 1..(Len(out) - 1) :
            IF FilterSucceeded
            THEN Le(out[i].days_to_expiration, out[i + 1].days_to_expiration)
            ELSE out[i].expiration.lex < out[i + 1].expiration.lex

\* C15 witness: a mapping whose keys came later date first was filtered to
\* two groups, returned nearer date first
C15_Witness ==
    /\ pc = "snapshot" /\ result.kind = "ok" /\ FilterSucceeded
    /\ Len(raw_options_data) = 2
    /\ raw_options_data[1].key = IsoStr(61) /\ raw_options_data[2].key = IsoStr(14)
    /\ Len(result.val.expiration_dates) = 2
    /\ result.val.expiration_dates[1].expiration = IsoStr(14)
    /\ result.val.expiration_dates[1].days_to_expiration = Num(14)
    /\ result.val.expiration_dates[2].days_to_expiration = Num(61)

\* C16: no ExpirationGroup that has zero calls and zero puts after validity
\* filtering is present in the snapshot returned by
\* create_market_data_response, and such a group is never the one chosen and
\* labelled for a target period.  Stated for mappings in which every
\* expiration came with at least one row.
C16_NoEmptyGroup ==
    (/\ pc = "snapshot" /\ result.kind = "ok"
     /\ \A k \in 1..Len(raw_options_data) : Len(raw_options_data[k].rows) > 0) =>
        \A i \in 1..Len(result.val.expiration_dates) :
            Len(AllContracts(result.val.expiration_dates[i])) > 0

-----------------------------------------------------------------------------
(* src/utils/data_formatter.py: formatting for the response.  A key the    *)
(* code leaves out of an option's dict is Missing here.  At the model's    *)
(* scale round(x, 2), round(x, 3) and round(x, 4) change nothing.          *)

\* truth value of x: None, 0 and the empty string are falsy
Falsy(x) == x = None \/ (x.k = "num" /\ x.v = 0) \/ (x.k = "str" /\ x.v = "")

\* "round(x, n) if x else None"
ValueIfTruthy(x) == IF Falsy(x) THEN None ELSE x

\* "if x: response[key] = x"
KeyIfTruthy(x) == IF Falsy(x) THEN Missing ELSE x

\* "if x is not None: response[key] = x"
KeyIfNotNone(x) == IF x = None THEN Missing ELSE x

\* format_option_for_response(option), for an option whose strike is a
\* number (round(None, 2) is a TypeError)
format_option_for_response(option) ==
    [strike |-> option.strike,
     lastPrice |-> ValueIfTruthy(option.last_price),
     impliedVolatilityYF |-> ValueIfTruthy(option.implied_volatility),
     delta |-> ValueIfTruthy(option.delta),
     contractSymbol |-> KeyIfTruthy(option.contract_symbol),
     lastTradeDate |-> KeyIfTruthy(option.last_trade_date),
     bid |-> KeyIfNotNone(option.bid),
     ask |-> KeyIfNotNone(option.ask),
     midPrice |-> KeyIfNotNone(option.mid_price),
     volume |-> KeyIfNotNone(option.volume),
     openInterest |-> KeyIfNotNone(option.open_interest),
     moneyness |-> KeyIfNotNone(option.moneyness),
     impliedVolatilityBid |-> KeyIfNotNone(option.implied_volatility_bid),
     impliedVolatilityMid |-> KeyIfNotNone(option.implied_volatility_mid),
     impliedVolatilityAsk |-> KeyIfNotNone(option.implied_volatility_ask)]

\* format_expiration_for_response(expiration)
format_expiration_for_response(expiration) ==
    [expiration |-> expiration.expiration,
     calls |-> [i \in 1..Len(expiration.calls) |->
                   format_option_for_response(expiration.calls[i])],
     puts |-> [i \in 1..Len(expiration.puts) |->
                  format_option_for_response(expiration.puts[i])],
     daysToExpiration |-> expiration.days_to_expiration,
     expirationLabel |-> expiration.expiration_label]

\* format_timestamp_for_api(timestamp): timestamp.tzinfo on a str is an
\* AttributeError
format_timestamp_for_api(timestamp) ==
    IF timestamp = Datetime THEN Ok(IsoText) ELSE Raise("AttributeError")

\* format_market_data_for_response(market_data)
format_market_data_for_response(market_data) ==
    LET st == format_timestamp_for_api(market_data.stock.timestamp)
        vt == format_timestamp_for_api(market_data.vix.timestamp)
    IN IF st.kind = "raise" THEN st
       ELSE IF vt.kind = "raise" THEN vt
       ELSE Ok([ticker |-> Str([i \in 1..Len(market_data.ticker.v) |->
                                   Upper(market_data.ticker.v[i])]),
                stock |-> [price |-> market_data.stock.price,
                           previousClose |-> market_data.stock.previous_close,
                           percentChange |-> market_data.stock.percent_change,
                           timestamp |-> st.val],
                vix |-> [value |-> market_data.vix.value,
                         previousClose |-> market_data.vix.previous_close,
                         percentChange |-> market_data.vix.percent_change,
                         timestamp |-> vt.val],
                expirationDates |->
                    [i \in 1..Len(market_data.expiration_dates) |->
                        format_expiration_for_response(
                            market_data.expiration_dates[i])]])

\* lines 275-287: format the MarketData that was created
FormatCreated(market_data) ==
    IF market_data.kind = "raise" THEN market_data
    ELSE format_market_data_for_response(market_data.val)

\* DataProcessor.format_api_response(...): any exception is re-raised
format_api_response(ticker, price, vix, raw, data_ts, vix_ts, flag, t, o) ==
    FormatCreated(create_market_data_response(ticker, price, vix, raw,
                      data_ts, vix_ts, flag, t, o))

-----------------------------------------------------------------------------
(* src/services/options_data_fetcher.py.  What Yahoo Finance answers is    *)
(* the provider: Raise, or Ok of a list of [expiration, chain], the chain  *)
(* in turn Raise or Ok([calls, puts]) of rows.                             *)

\* OptionsDataFetcher.validate_ticker(ticker)
validate_ticker(ticker) ==
    IF ticker = None THEN Raise("ValueError")
    ELSE IF Len(ticker.v) = 0 THEN Raise("ValueError")
    ELSE IF Len(CleanTicker(ticker.v)) = 0 THEN Raise("ValueError")
    ELSE IF \E i \in 1..Len(CleanTicker(ticker.v)) :
               CleanTicker(ticker.v)[i] \notin AlnumChars \cup {".", "-", "^"}
         THEN Raise("ValueError")
    ELSE Ok(Str(CleanTicker(ticker.v)))

ProviderRow(strike, last, iv, bid, ask) ==
    [strike |-> strike, lastPrice |-> last, impliedVolatility |-> iv,
     bid |-> bid, ask |-> ask]

\* parse_option_chain(option_chain, option_type)
RECURSIVE parse_option_chain(_, _)
parse_option_chain(rows, type) ==
    IF Len(rows) = 0 THEN <<>>
    ELSE LET r == Head(rows)
             rest == parse_option_chain(Tail(rows), type)
         IN IF Le(r.strike, Num(0)) \/ Le(r.lastPrice, Num(0)) THEN rest
            ELSE <<OptionData(r.strike, r.lastPrice, r.impliedVolatility, None,
                              type, r.bid, r.ask)>> \o rest

\* fetch_option_chain_for_expiration(ticker, expiration_date)
fetch_option_chain_for_expiration(entry) ==
    IF entry.chain.kind = "raise" THEN Raise("RuntimeError")
    ELSE Ok(ExpirationData(entry.expiration,
                           parse_option_chain(entry.chain.val.calls, "c"),
                           parse_option_chain(entry.chain.val.puts, "p")))

\* lines 213-223: chains that fail to fetch or have no option are left out
RECURSIVE CollectChains(_)
CollectChains(entries) ==
    IF Len(entries) = 0 THEN <<>>
    ELSE LET r == fetch_option_chain_for_expiration(Head(entries))
             rest == CollectChains(Tail(entries))
         IN IF r.kind = "raise" THEN rest
            ELSE IF Len(r.val.calls) > 0 \/ Len(r.val.puts) > 0
                 THEN <<r.val>> \o rest
                 ELSE rest

\* lines 225-228
NonEmptyChains(option_chains) ==
    IF Len(option_chains) = 0 THEN Raise("RuntimeError") ELSE Ok(option_chains)

\* fetch_all_option_chains(ticker): RuntimeError unless a chain is found
fetch_all_option_chains(provider) ==
    IF provider.kind = "raise" THEN Raise("RuntimeError")
    ELSE IF Len(provider.val) = 0 THEN Raise("RuntimeError")
    ELSE NonEmptyChains(CollectChains(provider.val))

\* lines 256-259
NonEmptyFiltered(filtered) ==
    IF filtered.kind = "raise" THEN Raise("RuntimeError")
    ELSE IF Len(filtered.val) = 0 THEN Raise("RuntimeError")
    ELSE filtered

\* lines 252-254
FilterFetched(all_option_chains, t) ==
    IF all_option_chains.kind = "raise" THEN Raise("RuntimeError")
    ELSE NonEmptyFiltered(
             filter_expirations_by_target_periods(all_option_chains.val, t).ret)

\* fetch_filtered_option_chains(ticker) at clock t
fetch_filtered_option_chains(provider, t) ==
    FilterFetched(fetch_all_option_chains(provider), t)

-----------------------------------------------------------------------------
(* src/utils/error_handling.py *)

\* an error message: its fixed text and the ticker it names, if any
Message(text, ticker) == [text |-> text, ticker |-> ticker]

ValidationError(message) ==
    [analytics |-> TRUE, error_type |-> "VALIDATION_ERROR", message |-> message]
DataFetchError(message) ==
    [analytics |-> TRUE, error_type |-> "DATA_FETCH_ERROR", message |-> message]
CalculationError(message) ==
    [analytics |-> TRUE, error_type |-> "CALCULATION_ERROR", message |-> message]
\* any exception that is not an OptionsAnalyticsError
GenericError(message) ==
    [analytics |-> FALSE, error_type |-> "SYSTEM_ERROR", message |-> message]

\* _get_status_code_for_error_type(error_type)
StatusCodeFor(error_type) == IF error_type = "VALIDATION_ERROR" THEN 400 ELSE 500

ErrorResponse(status, type, message) ==
    [statusCode |-> status, errorType |-> type, error |-> message, body |-> None]

\* the details an error carries once its constructor has added its own keys
\* (the model keeps the keys of the map, the values play no part)
ConstructorKeys(class) ==
    IF class = "DataFetchError" THEN {"source", "ticker"}
    ELSE IF class = "CalculationError" THEN {"calculation_type"}
    ELSE IF class = "ValidationError" THEN {"field", "value"}
    ELSE {}

\* mutant: the details surfaced as they are
SafeDetails_Unfiltered(details) == details

\* lines 222-225 of _create_error_response: the sensitive keys dropped
SafeDetails(details) ==
    {k \in details : k \notin {"password", "token", "key", "secret", "api_key"}}

\* the 'details' entry of the body _create_error_response builds: absent
\* when no details are given or none is left
BodyDetails(details) ==
    IF details = {} \/ SafeDetails(details) = {} THEN Missing
    ELSE [k |-> "map", keys |-> SafeDetails(details)]

\* the details handle_error passes on: those of an OptionsAnalyticsError,
\* none for any other exception
HandledDetails(class, details) ==
    IF class = "Exception" THEN BodyDetails({})
    ELSE BodyDetails(details \cup ConstructorKeys(class))

\* the 200 response of the handlers
SuccessResponse(response_data) ==
    [statusCode |-> 200, errorType |-> "", error |-> None, body |-> response_data]

\* ErrorHandler.handle_error(error, context)
handle_error(error) ==
    IF error.analytics
    THEN ErrorResponse(StatusCodeFor(error.error_type), error.error_type,
                       error.message)
    ELSE ErrorResponse(500, "SYSTEM_ERROR", error.message)

-----------------------------------------------------------------------------
(* src/utils/logging_utils.py *)

\* create_request_logger(name, event): event.requestContext is the value of
\* the "requestContext" key, a dict, None, or Missing.  The default of
\* event.get('requestContext', {}) applies to a missing key only, and
\* None.get is an AttributeError.
create_request_logger(event) ==
    IF event.requestContext = None THEN Raise("AttributeError")
    ELSE Ok("logger")

-----------------------------------------------------------------------------
(* src/handler.py *)

\* parse_query_parameters(event, logger): event.ticker is the "ticker"
\* query parameter, None when there is none
parse_query_parameters(event) ==
    IF event.ticker = None THEN Str(<<"S", "P", "Y">>)
    ELSE IF Len(event.ticker.v) = 0 THEN Str(<<"S", "P", "Y">>)
    ELSE Str(RStrip(LStrip(event.ticker.v)))

\* result[key] = value on a dict kept in insertion order
RECURSIVE DictPut(_, _, _)
DictPut(d, key, value) ==
    IF Len(d) = 0 THEN <<[key |-> key, rows |-> value]>>
    ELSE IF Head(d).key = key THEN <<[key |-> key, rows |-> value]>> \o Tail(d)
    ELSE <<Head(d)>> \o DictPut(Tail(d), key, value)

\* lines 70-82: the dict made of one contract has strike, last_price and
\* option_type only
BasicDict(option) ==
    RawRow(option.option_type, option.strike, option.last_price,
           Missing, Missing, Missing)

\* convert_expiration_data_to_dict(expiration_data_list)
RECURSIVE convert_expiration_data_to_dict(_)
convert_expiration_data_to_dict(list) ==
    IF Len(list) = 0 THEN <<>>
    ELSE LET last == list[Len(list)]
             options_list == [i \in 1..Len(last.calls) |-> BasicDict(last.calls[i])]
                             \o [i \in 1..Len(last.puts) |-> BasicDict(last.puts[i])]
         IN DictPut(convert_expiration_data_to_dict(SubSeq(list, 1, Len(list) - 1)),
                    last.expiration, options_list)

\* what py_vollib answers within a request
HandlerOracle == [delta |-> Num(50), bid |-> Num(20), mid |-> Num(20), ask |-> Num(20)]

\* the outcome of a step that was not reached
NotRun == [kind |-> "notrun"]

\* mutant: a processing failure handled as an unexpected exception
RespondProcessed_Generic(fetched, response_data) ==
    [response |-> IF response_data.kind = "raise"
                  THEN handle_error(GenericError(
                           Message("Internal server error", None)))
                  ELSE SuccessResponse(response_data.val),
     fetched |-> fetched,
     stages |-> <<"validate", "market", "options", "process">>]

\* lines 177-229: the response made of the processing outcome
RespondProcessed(fetched, response_data) ==
    [response |-> IF response_data.kind = "raise"
                  THEN handle_error(CalculationError(
                           Message("Failed to process options data", None)))
                  ELSE SuccessResponse(response_data.val),
     fetched |-> fetched,
     stages |-> <<"validate", "market", "options", "process">>]

\* lines 149-208: the fetched list checked, converted and processed
ProcessFetched(validated_ticker, market, fetched, t) ==
    IF fetched.kind = "raise"
    THEN [response |-> handle_error(DataFetchError(
                           Message("Failed to fetch options data", validated_ticker))),
          fetched |-> fetched,
          stages |-> <<"validate", "market", "options">>]
    ELSE IF Len(fetched.val) = 0
    THEN [response |-> handle_error(DataFetchError(
                           Message("No option expiration dates found for ticker",
                                   validated_ticker))),
          fetched |-> fetched,
          stages |-> <<"validate", "market", "options">>]
    ELSE RespondProcessed(fetched,
             format_api_response(validated_ticker, market.stock_price,
                 market.vix_value, convert_expiration_data_to_dict(fetched.val),
                 market.stock_timestamp, market.vix_timestamp, TRUE, t,
                 HandlerOracle))

\* mutant: the option chains fetched although the market data fetch failed
FetchAndProcess_OptionsAfterMarketFailure(validated_ticker, provider, t) ==
    IF validated_ticker.kind = "raise"
    THEN [response |-> handle_error(ValidationError(
                           Message("Invalid ticker symbol", None))),
          fetched |-> NotRun,
          stages |-> <<"validate">>]
    ELSE IF provider.market.kind = "raise"
    THEN [response |-> handle_error(DataFetchError(
                           Message("Failed to fetch market data", None))),
          fetched |-> fetch_all_option_chains(provider.options),
          stages |-> <<"validate", "market", "options">>]
    ELSE ProcessFetched(validated_ticker.val, provider.market.val,
                        fetch_all_option_chains(provider.options), t)

\* lines 117-172: after parsing, validation and the two fetches.  stages
\* lists the stages that were started, in the order they were started.
FetchAndProcess(validated_ticker, provider, t) ==
    IF validated_ticker.kind = "raise"
    THEN [response |-> handle_error(ValidationError(
                           Message("Invalid ticker symbol", None))),
          fetched |-> NotRun,
          stages |-> <<"validate">>]
    ELSE IF provider.market.kind = "raise"
    THEN [response |-> handle_error(DataFetchError(
                           Message("Failed to fetch market data", None))),
          fetched |-> NotRun,
          stages |-> <<"validate", "market">>]
    ELSE ProcessFetched(validated_ticker.val, provider.market.val,
                        fetch_all_option_chains(provider.options), t)

\* get_options_analytics(event, context) at clock t.  provider.market is
\* what fetch_market_data does, provider.options what Yahoo Finance answers
\* for the option chains.  Returned with the response: the fetched list.
get_options_analytics(event, provider, t) ==
    FetchAndProcess(validate_ticker_symbol(parse_query_parameters(event)),
                    provider, t)

-----------------------------------------------------------------------------
(* src/optimized_handler.py *)

\* lines 77-95: bid and ask are added when they are not None
EnhancedDict(option) ==
    RawRow(option.option_type, option.strike, option.last_price, Missing,
           IF option.bid # None THEN option.bid ELSE Missing,
           IF option.ask # None THEN option.ask ELSE Missing)

\* convert_expiration_data_to_dict(expiration_data_list) of the optimized
\* handler
RECURSIVE convert_expiration_data_to_dict_enhanced(_)
convert_expiration_data_to_dict_enhanced(list) ==
    IF Len(list) = 0 THEN <<>>
    ELSE LET last == list[Len(list)]
             options_list == [i \in 1..Len(last.calls) |-> EnhancedDict(last.calls[i])]
                             \o [i \in 1..Len(last.puts) |-> EnhancedDict(last.puts[i])]
         IN DictPut(convert_expiration_data_to_dict_enhanced(
                        SubSeq(list, 1, Len(list) - 1)),
                    last.expiration, options_list)

\* mutant: no fallback to the basic market data
FetchMarketWithFallback_NoFallback(provider) ==
    IF provider.enhanced_market.kind = "ok" THEN provider.enhanced_market
    ELSE Raise("DataFetchError")

\* lines 172-224: enhanced market data, else basic market data with the
\* current values standing in for the previous close
FetchMarketWithFallback(provider) ==
    IF provider.enhanced_market.kind = "ok" THEN provider.enhanced_market
    ELSE IF provider.market.kind = "ok"
    THEN Ok([stock_price |-> provider.market.val.stock_price,
             stock_prev_close |-> provider.market.val.stock_price,
             stock_pct_change |-> Num(0),
             stock_timestamp |-> provider.market.val.stock_timestamp,
             vix_value |-> provider.market.val.vix_value,
             vix_prev_close |-> provider.market.val.vix_value,
             vix_pct_change |-> Num(0),
             vix_timestamp |-> provider.market.val.vix_timestamp])
    ELSE Raise("DataFetchError")

\* mutant: the whole list taken as the fallback
FirstFour_All(list) == list

\* all_expiration_data_list[:4]
FirstFour(list) == SubSeq(list, 1, IF Len(list) < 4 THEN Len(list) ELSE 4)

\* lines 263-280: the chains filtered by hand, else the first four
FilterByHand(all, manual) ==
    IF manual.kind = "raise" THEN Ok(FirstFour(all))
    ELSE IF Len(manual.val) = 0 THEN Ok(FirstFour(all))
    ELSE manual

\* lines 244-294: all chains after the filtered fetch failed
FallBackToAll(all, t) ==
    IF all.kind = "raise" THEN Raise("failed")
    ELSE IF Len(all.val) = 0 THEN Raise("empty")
    ELSE FilterByHand(all.val, filter_expirations_by_target_periods(all.val, t).ret)

\* lines 228-243
FilteredOrFallBack(filtered, provider, t) ==
    IF filtered.kind = "ok"
    THEN (IF Len(filtered.val) = 0 THEN Raise("empty") ELSE filtered)
    ELSE FallBackToAll(fetch_all_option_chains(provider.options), t)

\* lines 226-294: the filtered chains, else all chains filtered by hand,
\* else the first four of them.  "empty" is the DataFetchError of an empty
\* list, "failed" the one of a fetch that failed twice.
FetchOptionsWithFallback(provider, t) ==
    FilteredOrFallBack(fetch_filtered_option_chains(provider.options, t),
                       provider, t)

\* lines 323-347 and 350-374: an IV of 0.2 for a contract without any IV
\* that has a bid and an ask
DefaultIv(option) ==
    IF /\ option.implied_volatility = None
       /\ option.implied_volatility_bid = None
       /\ option.implied_volatility_mid = None
       /\ option.implied_volatility_ask = None
       /\ option.bid # None /\ Gt(option.bid, Num(0))
       /\ option.ask # None /\ Gt(option.ask, Num(0))
    THEN [option EXCEPT !.implied_volatility = Num(20)]
    ELSE option

DefaultIvAll(list) ==
    [i \in 1..Len(list) |->
        [list[i] EXCEPT !.calls = [j \in 1..Len(@) |-> DefaultIv(@[j])],
                        !.puts = [j \in 1..Len(@) |-> DefaultIv(@[j])]]]

\* OptimizedDataProcessor.create_market_data_response(...): it raises, or
\* builds the snapshot as DataProcessor does
optimized_create_market_data_response(ticker, market, raw, flag, t, o, outcome) ==
    IF outcome = "raise" THEN Raise("Exception")
    ELSE create_market_data_response(ticker, market.stock_price,
             market.vix_value, raw, market.stock_timestamp,
             market.vix_timestamp, flag, t, o)

\* lines 313-377: the created MarketData completed and formatted
FormatEnhanced(created, market) ==
    IF created.kind = "raise" THEN created
    ELSE format_market_data_for_response(
             [created.val EXCEPT
                 !.stock.previous_close = market.stock_prev_close,
                 !.stock.percent_change = market.stock_pct_change,
                 !.vix.previous_close = market.vix_prev_close,
                 !.vix.percent_change = market.vix_pct_change,
                 !.expiration_dates = DefaultIvAll(@)])

\* lines 301-390: the enhanced processing step; Ok carries response_data
EnhancedProcessing(ticker, market, list, t, outcome) ==
    FormatEnhanced(
        optimized_create_market_data_response(ticker, market,
            convert_expiration_data_to_dict_enhanced(list), FALSE, t,
            HandlerOracle, outcome),
        market)

\* lines 398-433: the simplified snapshot of the unprocessed list
SimplifiedProcessing(ticker, market, list) ==
    format_market_data_for_response(
        [ticker |-> ticker,
         stock |-> [price |-> market.stock_price,
                    previous_close |-> market.stock_prev_close,
                    percent_change |-> market.stock_pct_change,
                    timestamp |-> market.stock_timestamp],
         vix |-> [value |-> market.vix_value,
                  previous_close |-> market.vix_prev_close,
                  percent_change |-> market.vix_pct_change,
                  timestamp |-> market.vix_timestamp],
         expiration_dates |-> list])

\* a local variable no assignment has reached
Unbound == [k |-> "unbound"]

\* line 380
TotalOptions(response_data) ==
    LET RECURSIVE Sum(_)
        Sum(es) == IF Len(es) = 0 THEN 0
                   ELSE Len(Head(es).calls) + Len(Head(es).puts) + Sum(Tail(es))
    IN Num(Sum(response_data.expirationDates))

\* lines 447-466: the 200 response; logging it reads total_options, an
\* UnboundLocalError when line 380 was not reached
RespondOk(response_data, total_options) ==
    IF total_options = Unbound
    THEN handle_error(GenericError(Message("Internal server error", None)))
    ELSE SuccessResponse(response_data)

\* lines 392-466: the response made of the two processing outcomes;
\* total_options is bound only when the enhanced step returned
RespondEnhanced(enhanced, simplified) ==
    IF enhanced.kind = "ok"
    THEN [response |-> RespondOk(enhanced.val, TotalOptions(enhanced.val)),
          enhanced |-> enhanced, simplified |-> NotRun]
    ELSE IF simplified.kind = "raise"
    THEN [response |-> handle_error(CalculationError(
                           Message("Failed to process enhanced options data", None))),
          enhanced |-> enhanced, simplified |-> simplified]
    ELSE [response |-> RespondOk(simplified.val, Unbound),
          enhanced |-> enhanced, simplified |-> simplified]

\* the response of a request that ended before the processing
EarlyError(error) ==
    [response |-> handle_error(error), enhanced |-> NotRun, simplified |-> NotRun]

\* lines 226-445: the options fetched and processed
ProcessOptions(validated_ticker, market, options, t, outcome) ==
    IF options.kind = "raise"
    THEN EarlyError(DataFetchError(Message(
             IF options.exc = "empty"
             THEN "No option expiration dates found for ticker"
             ELSE "Failed to fetch filtered options data",
             validated_ticker)))
    ELSE RespondEnhanced(
             EnhancedProcessing(validated_ticker, market, options.val, t, outcome),
             SimplifiedProcessing(validated_ticker, market, options.val))

\* lines 156-294: after parsing, validation and the market fetch
FetchAndProcessEnhanced(validated_ticker, market, provider, t, outcome) ==
    IF validated_ticker.kind = "raise"
    THEN EarlyError(ValidationError(Message("Invalid ticker symbol", None)))
    ELSE IF market.kind = "raise"
    THEN EarlyError(DataFetchError(
             Message("Failed to fetch enhanced market data", None)))
    ELSE ProcessOptions(validated_ticker.val, market.val,
                        FetchOptionsWithFallback(provider, t), t, outcome)

\* get_options_analytics(event, context) of the optimized handler at clock
\* t; outcome is what OptimizedDataProcessor does.  Returned with the
\* response: the outcomes of the enhanced and of the simplified processing.
optimized_get_options_analytics(event, provider, t, outcome) ==
    FetchAndProcessEnhanced(
        validate_ticker_symbol(parse_query_parameters(event)),
        FetchMarketWithFallback(provider), provider, t, outcome)

-----------------------------------------------------------------------------
(* Specification SpecHandler: one invocation of either handler on any      *)
(* event, with the provider answering in any way.                          *)

EventTickers == {None, Str(<<"s", "p", "y", " ">>), Str(<<"^", "V", "I", "X">>)}

GoodRow == ProviderRow(Num(3000), Num(2), Num(20), Num(2), Num(4))
ZeroLastRow == ProviderRow(Num(3000), Num(0), Num(20), Num(2), Num(4))
FarRow == ProviderRow(Num(100), Num(2), Num(20), None, None)

ProviderChains ==
    {Raise("Exception")}
    \cup {Ok([calls |-> c, puts |-> p]) :
            c \in {<<>>, <<GoodRow>>, <<ZeroLastRow>>, <<FarRow>>},
            p \in {<<>>, <<GoodRow>>}}

HandlerExpirations == {IsoStr(14), IsoStr(31), BadStr}

ProviderOptions ==
    {Raise("Exception")}
    \cup UNION {{Ok([i \in 1..Len(ks) |-> [expiration |-> ks[i], chain |-> cs[i]]]) :
                    cs \in [1..Len(ks) -> ProviderChains]} :
                ks \in DistinctSeqs(HandlerExpirations, MaxKeys)}

Timestamps == {Datetime, IsoText}

ProviderMarkets ==
    {Raise("RuntimeError")}
    \cup {Ok([stock_price |-> Num(3000), vix_value |-> Num(18),
              stock_timestamp |-> ts, vix_timestamp |-> ts]) : ts \in Timestamps}

ProviderEnhancedMarkets ==
    {Raise("RuntimeError")}
    \cup {Ok([stock_price |-> Num(3000), stock_prev_close |-> Num(2990),
              stock_pct_change |-> Num(1), stock_timestamp |-> ts,
              vix_value |-> Num(18), vix_prev_close |-> Num(20),
              vix_pct_change |-> Num(-10), vix_timestamp |-> ts]) :
            ts \in Timestamps}

InitHandler ==
    /\ now = 0
    /\ pc = "start"
    /\ args \in [ticker : EventTickers]
    /\ contracts = <<>>
    /\ expiration_data_list = <<>>
    /\ raw_options_data = <<>>
    /\ underlying_price = None
    /\ env \in [market : ProviderMarkets, enhanced_market : ProviderEnhancedMarkets,
                options : ProviderOptions]
    /\ result = Idle
    /\ response = Idle

\* handler.get_options_analytics(event, context)
GetOptionsAnalytics ==
    /\ pc = "start"
    /\ LET r == get_options_analytics(args, env, now)
       IN /\ response' = r.response
          /\ result' = [fetched |-> r.fetched, stages |-> r.stages]
    /\ pc' = "base"
    /\ UNCHANGED <<now, args, contracts, expiration_data_list, raw_options_data,
                   underlying_price, env>>

\* optimized_handler.get_options_analytics(event, context)
GetOptionsAnalyticsOptimized ==
    /\ pc = "start"
    /\ \E outcome \in {"return", "raise"} :
          LET r == optimized_get_options_analytics(args, env, now, outcome)
          IN /\ response' = r.response
             /\ result' = [enhanced |-> r.enhanced, simplified |-> r.simplified]
    /\ pc' = "optimized"
    /\ UNCHANGED <<now, args, contracts, expiration_data_list, raw_options_data,
                   underlying_price, env>>

NextHandler == GetOptionsAnalytics \/ GetOptionsAnalyticsOptimized

SpecHandler == InitHandler /\ [][NextHandler]_vars

-----------------------------------------------------------------------------
(* Claims on the handlers *)

\* the groups the data processor makes of the fetched list hold no contract
AllGroupsEmpty(fetched) ==
    LET groups == structure_options_by_expiration(
                      convert_expiration_data_to_dict(fetched),
                      env.market.val.stock_price, DefaultRange.lo,
                      DefaultRange.hi, now, HandlerOracle)
    IN \A i \in 1..Len(groups) : Len(AllContracts(groups[i])) = 0

\* C9: a request in which every fetched expiration is left with zero
\* contracts after validity and moneyness filtering ends in a DataFetchError
\* (HTTP 500), not in a 200 response whose expirations have empty call and
\* put lists.
C9_ZeroContractsIsDataFetchError ==
    (/\ pc = "base" /\ result.fetched.kind = "ok"
     /\ AllGroupsEmpty(result.fetched.val))
    => (response.statusCode = 500 /\ response.errorType = "DATA_FETCH_ERROR")

\* C10: in the optimized handler, when the enhanced processing step raises
\* but the simplified snapshot of the unprocessed list is built and
\* formatted, the invocation returns 200 with the simplified snapshot as its
\* body; a CalculationError response is returned only when the simplified
\* path fails too.
C10_SimplifiedFallbackReturns200 ==
    pc = "optimized" =>
        /\ (result.enhanced.kind = "raise" /\ result.simplified.kind = "ok")
              => (response.statusCode = 200 /\ response.body = result.simplified.val)
        /\ response.errorType = "CALCULATION_ERROR"
              => (result.enhanced.kind = "raise" /\ result.simplified.kind = "raise")

\* the ticker of the event passes validation
TickerValid == validate_ticker_symbol(parse_query_parameters(args)).kind = "ok"

\* the response is the DataFetchError of the market-data step
MarketFetchFailed ==
    /\ response.statusCode = 500 /\ response.errorType = "DATA_FETCH_ERROR"
    /\ response.error.text = "Failed to fetch enhanced market data"

\* C11: in the optimized handler, when the enhanced market-data fetch fails
\* and the basic fetch succeeds, the request goes on past the market-data
\* step, and a 200 response reports previousClose equal to the current value
\* and percentChange 0 for both stock and VIX; when the basic fetch fails
\* too, the request ends with a DataFetchError (HTTP 500).
C11_MarketFallback ==
    (pc = "optimized" /\ TickerValid /\ env.enhanced_market.kind = "raise") =>
        IF env.market.kind = "ok"
        THEN /\ ~MarketFetchFailed
             /\ response.statusCode = 200 =>
                   /\ response.body.stock.price = env.market.val.stock_price
                   /\ response.body.stock.previousClose = response.body.stock.price
                   /\ response.body.stock.percentChange = Num(0)
                   /\ response.body.vix.value = env.market.val.vix_value
                   /\ response.body.vix.previousClose = response.body.vix.value
                   /\ response.body.vix.percentChange = Num(0)
        ELSE MarketFetchFailed

\* C11 witness: a 200 response with an expiration group, made of the basic
\* quote after the enhanced fetch failed
C11_Witness ==
    /\ pc = "optimized" /\ env.enhanced_market.kind = "raise"
    /\ env.market.kind = "ok" /\ response.statusCode = 200
    /\ response.body.stock.previousClose = Num(3000)
    /\ response.body.vix.percentChange = Num(0)
    /\ Len(response.body.expirationDates) > 0

\* what format_api_response does with the list the base handler fetched
BaseProcessing ==
    format_api_response(
        validate_ticker_symbol(parse_query_parameters(args)).val,
        env.market.val.stock_price, env.market.val.vix_value,
        convert_expiration_data_to_dict(result.fetched.val),
        env.market.val.stock_timestamp, env.market.val.vix_timestamp,
        TRUE, now, HandlerOracle)

-----------------------------------------------------------------------------
(* Specification SpecTicker: the two ticker validators applied to None and *)
(* to any short string over letters, blank, '.', '-', '^' and '@'.         *)

TickerChars == {"S", "y", " ", ".", "-", "^", "@"}

TickerInputs == {None} \cup {Str(w) : w \in SeqUpTo(TickerChars, MaxTickerLen)}

InitTicker ==
    /\ now = 0
    /\ pc = "start"
    /\ args \in [ticker : TickerInputs]
    /\ contracts = <<>>
    /\ expiration_data_list = <<>>
    /\ raw_options_data = <<>>
    /\ underlying_price = None
    /\ env = Idle
    /\ result = Idle
    /\ response = Idle

\* validate_ticker_symbol(ticker)
ValidateTickerSymbol ==
    /\ pc = "start"
    /\ result' = validate_ticker_symbol(args.ticker)
    /\ pc' = "validated"
    /\ UNCHANGED <<now, args, contracts, expiration_data_list, raw_options_data,
                   underlying_price, env, response>>

\* OptionsDataFetcher.validate_ticker(ticker)
ValidateTicker ==
    /\ pc = "start"
    /\ result' = validate_ticker(args.ticker)
    /\ pc' = "fetcher_validated"
    /\ UNCHANGED <<now, args, contracts, expiration_data_list, raw_options_data,
                   underlying_price, env, response>>

NextTicker == ValidateTickerSymbol \/ ValidateTicker

SpecTicker == InitTicker /\ [][NextTicker]_vars

-----------------------------------------------------------------------------
(* Claims on the ticker validator *)

\* the string without its leading and trailing blanks
Trimmed(w) == RStrip(LStrip(w))

\* C14: validate_ticker_symbol accepts exactly the strings that are non-empty
\* after trimming and whose every character is alphanumeric or one of '.',
\* '-', '^' (so it accepts "^VIX" as it accepts "SPY", and rejects "", None,
\* "SPY@" and "SP Y").
C14_AcceptsExactly ==
    pc = "validated" =>
        (result.kind = "ok" <=>
            /\ args.ticker # None
            /\ Len(Trimmed(args.ticker.v)) > 0
            /\ \A i \in 1..Len(Trimmed(args.ticker.v)) :
                  Trimmed(args.ticker.v)[i] \in {"S", "y", ".", "-", "^"})

-----------------------------------------------------------------------------
(* Specification SpecFormat: format_option_for_response applied to any     *)
(* contract.                                                               *)

FormatContracts ==
    {[OptionData(Num(100), last, iv, delta, "c", bid, None) EXCEPT
         !.contract_symbol = symbol, !.volume = volume,
         !.mid_price = mid, !.implied_volatility_mid = iv_mid] :
        last \in {None, Num(0), Num(2)},
        iv \in {None, Num(0), Num(20)},
        delta \in {None, Num(0), Num(50), Num(-50)},
        bid \in {None, Num(0), Num(2)},
        symbol \in {None, Str(""), Str("SPY250117C00100000")},
        volume \in {None, Num(0), Num(7)},
        mid \in {None, Num(3)},
        iv_mid \in {None, Num(20)}}

InitFormat ==
    /\ now = 0
    /\ pc = "start"
    /\ args = Idle
    /\ contracts \in {<<c>> : c \in FormatContracts}
    /\ expiration_data_list = <<>>
    /\ raw_options_data = <<>>
    /\ underlying_price = None
    /\ env = Idle
    /\ result = Idle
    /\ response = Idle

\* format_option_for_response(option)
FormatOption ==
    /\ pc = "start"
    /\ result' = format_option_for_response(contracts[1])
    /\ pc' = "formatted"
    /\ UNCHANGED <<now, args, contracts, expiration_data_list, raw_options_data,
                   underlying_price, env, response>>

NextFormat == FormatOption

SpecFormat == InitFormat /\ [][NextFormat]_vars

-----------------------------------------------------------------------------
(* Claims on the option formatter *)

\* a key that is always emitted: null exactly when the field is null
AlwaysEmitted(key, field) == key # Missing /\ (key = None <=> field = None)

\* a key that is emitted if and only if the field is not null
SparselyEmitted(key, field) ==
    IF field = None THEN key = Missing ELSE key = field

\* C17: format_option_for_response always emits the keys strike, lastPrice,
\* impliedVolatilityYF and delta, each of them null exactly when the
\* corresponding contract field is null, and emits every other option key if
\* and only if the corresponding contract field is non-null.
C17_SparseKeys ==
    pc = "formatted" =>
        LET option == contracts[1] IN
        /\ AlwaysEmitted(result.strike, option.strike)
        /\ AlwaysEmitted(result.lastPrice, option.last_price)
        /\ AlwaysEmitted(result.impliedVolatilityYF, option.implied_volatility)
        /\ AlwaysEmitted(result.delta, option.delta)
        /\ SparselyEmitted(result.contractSymbol, option.contract_symbol)
        /\ SparselyEmitted(result.lastTradeDate, option.last_trade_date)
        /\ SparselyEmitted(result.bid, option.bid)
        /\ SparselyEmitted(result.ask, option.ask)
        /\ SparselyEmitted(result.midPrice, option.mid_price)
        /\ SparselyEmitted(result.volume, option.volume)
        /\ SparselyEmitted(result.openInterest, option.open_interest)
        /\ SparselyEmitted(result.moneyness, option.moneyness)
        /\ SparselyEmitted(result.impliedVolatilityBid, option.implied_volatility_bid)
        /\ SparselyEmitted(result.impliedVolatilityMid, option.implied_volatility_mid)
        /\ SparselyEmitted(result.impliedVolatilityAsk, option.implied_volatility_ask)

-----------------------------------------------------------------------------
(* Specification SpecQuote: calculate_mid_price and                        *)
(* calculate_implied_volatilities applied to any quote, with the solver    *)
(* answering in any way for each of the three prices.                      *)

QuotePrices == {None, NaN, Num(-2), Num(0), Num(2), Num(4)}

QuoteOracles == [delta : {Raises}, bid : SolverChoices, mid : SolverChoices,
                 ask : SolverChoices]

InitQuote ==
    /\ now = 0
    /\ pc = "start"
    /\ args \in [bid : QuotePrices, ask : QuotePrices,
                 strike : {Num(0), Num(100)},
                 implied_volatility : {None, Num(20)},
                 time_to_expiration : {0, TicksPerDay}]
    /\ contracts = <<>>
    /\ expiration_data_list = <<>>
    /\ raw_options_data = <<>>
    /\ underlying_price \in {Num(0), Num(100)}
    /\ env \in [oracle : QuoteOracles]
    /\ result = Idle
    /\ response = Idle

\* calculate_mid_price(bid, ask)
MidPrice ==
    /\ pc = "start"
    /\ result' = calculate_mid_price(args.bid, args.ask)
    /\ pc' = "mid"
    /\ UNCHANGED <<now, args, contracts, expiration_data_list, raw_options_data,
                   underlying_price, env, response>>

\* calculate_implied_volatilities(option, current_price, time_to_expiration,
\* risk_free_rate, option_type)
ImpliedVolatilities ==
    /\ pc = "start"
    /\ result' = calculate_implied_volatilities(args.strike, args.bid, args.ask,
                     args.implied_volatility, underlying_price,
                     args.time_to_expiration, env.oracle)
    /\ pc' = "ivs"
    /\ UNCHANGED <<now, args, contracts, expiration_data_list, raw_options_data,
                   underlying_price, env, response>>

NextQuote == MidPrice \/ ImpliedVolatilities

SpecQuote == InitQuote /\ [][NextQuote]_vars

-----------------------------------------------------------------------------
(* Claims on the calculation utilities *)

Positive(x) == x # None /\ Gt(x, Num(0))

\* C18 as stated, for sides that are null or numbers: calculate_mid_price
\* returns 0 when neither side is a positive number, the one positive side
\* when exactly one of bid and ask is positive (the other being null, zero or
\* negative), and (bid + ask) / 2 when both are positive.
C18_MidPriceOnePositiveSide ==
    (pc = "mid" /\ args.bid # NaN /\ args.ask # NaN) =>
        result = IF Positive(args.bid) /\ Positive(args.ask)
                 THEN Num((args.bid.v + args.ask.v) \div 2)
                 ELSE IF Positive(args.bid) THEN args.bid
                 ELSE IF Positive(args.ask) THEN args.ask
                 ELSE Num(0)

\* C18 amended: calculate_mid_price returns 0 when either side is null or
\* when neither side is positive; the one positive side when exactly one of
\* bid and ask is positive and the other is zero or negative; (bid + ask) / 2
\* when both are positive; and NaN when a side is NaN and neither is null.
C18_MidPriceNullIsZero ==
    pc = "mid" =>
        result = IF args.bid = None \/ args.ask = None THEN Num(0)
                 ELSE IF args.bid = NaN \/ args.ask = NaN THEN NaN
                 ELSE IF Positive(args.bid) /\ Positive(args.ask)
                 THEN Num((args.bid.v + args.ask.v) \div 2)
                 ELSE IF Positive(args.bid) THEN args.bid
                 ELSE IF Positive(args.ask) THEN args.ask
                 ELSE Num(0)

\* C18 witness: a null bid next to a positive ask gave 0
C18_Witness ==
    pc = "mid" /\ args.bid = None /\ args.ask = Num(4) /\ result = Num(0)

\* the solver's answer is a value in (0, 5.0], 5.0 included
InClosedRange(choice) ==
    choice # Raises /\ Lt(Num(0), choice) /\ Le(choice, Num(500))

QuoteBid == safe_float_conversion(args.bid)
QuoteAsk == safe_float_conversion(args.ask)
QuoteMid == calculate_mid_price(QuoteBid, QuoteAsk)

QuoteInputsValid ==
    /\ Gt(args.strike, Num(0))
    /\ Gt(underlying_price, Num(0))
    /\ args.time_to_expiration > 0

\* C19: on valid inputs calculate_implied_volatilities computes the bid, mid
\* and ask IVs independently: each of the three is non-null exactly when its
\* own price is positive and the solver returns, without raising, a value in
\* (0, 5.0] (5.0 included), whatever happens for the other two prices, and
\* the provider's YF value is carried over.
C19_TripletIndependentClosedRange ==
    (pc = "ivs" /\ QuoteInputsValid) =>
        /\ (result.impliedVolatilityBid # None) <=>
               (Positive(QuoteBid) /\ InClosedRange(env.oracle.bid))
        /\ (result.impliedVolatilityMid # None) <=>
               (Positive(QuoteMid) /\ InClosedRange(env.oracle.mid))
        /\ (result.impliedVolatilityAsk # None) <=>
               (Positive(QuoteAsk) /\ InClosedRange(env.oracle.ask))
        /\ result.impliedVolatilityYF = safe_float_conversion(args.implied_volatility)

-----------------------------------------------------------------------------
(* Claims on find_closest_expiration_dates with no expirations, SpecSel *)

\* C20 as stated: find_closest_expiration_dates fails with an empty-input
\* error when the list of available expirations is empty, rather than
\* returning a result.
C20_EmptyListFails ==
    (pc = "found" /\ expiration_data_list = <<>>) => result.kind = "raise"

\* C20 amended: find_closest_expiration_dates returns an empty mapping when
\* the list of available expirations is empty; select_target_expiration_dates
\* is the one that raises ValueError for an empty list.
C20_EmptyListGivesEmptyMapping ==
    /\ (pc = "found" /\ expiration_data_list = <<>>) => result = Ok(<<>>)
    /\ \A t \in 0..MaxTod :
           select_target_expiration_dates(<<>>, t, t) = Raise("ValueError")

\* C20 witness: the function ran on an empty list and returned the empty
\* mapping
C20_Witness ==
    pc = "found" /\ expiration_data_list = <<>> /\ result.kind = "ok"
        /\ Len(result.val) = 0

-----------------------------------------------------------------------------
(* Specification SpecConvert: _convert_raw_options_to_objects applied to   *)
(* one raw row with any mix of valid, null, missing and unparsable numeric *)
(* fields, followed by a well-formed row.                                  *)

RawValues == {Num(2), None, Missing, Bad}

NumericFields == {"strike", "last_price", "implied_volatility", "bid", "ask",
                  "volume", "open_interest"}

WellFormedRow == RawRow("p", Num(3000), Num(2), Num(20), Num(2), Num(4))

InitConvert ==
    /\ now = 0
    /\ pc = "start"
    /\ args \in [option_type : {"c", "p"}, strike : RawValues,
                 last_price : RawValues, implied_volatility : RawValues,
                 bid : RawValues, ask : RawValues, volume : RawValues,
                 open_interest : RawValues]
    /\ contracts = <<>>
    /\ expiration_data_list = <<>>
    /\ raw_options_data = <<>>
    /\ underlying_price = None
    /\ env = Idle
    /\ result = Idle
    /\ response = Idle

\* DataProcessor._convert_raw_options_to_objects(raw_options)
ConvertRawOptions ==
    /\ pc = "start"
    /\ contracts' = convert_raw_options_to_objects(<<args, WellFormedRow>>)
    /\ pc' = "converted"
    /\ UNCHANGED <<now, args, expiration_data_list, raw_options_data,
                   underlying_price, env, result, response>>

NextConvert == ConvertRawOptions

SpecConvert == InitConvert /\ [][NextConvert]_vars

\* the value the claim expects for a raw field: the number, or null when the
\* field is invalid or missing
NumberOrNull(x) == IF x.k = "num" THEN x ELSE None

\* C21: _convert_raw_options_to_objects never raises, and a raw row with an
\* invalid or missing numeric field still yields a contract with that field
\* null: the row is not discarded and the field is not replaced by 0.
C21_InvalidFieldBecomesNull ==
    pc = "converted" =>
        /\ Len(contracts) = 2
        /\ \A f \in NumericFields : contracts[1][f] = NumberOrNull(args[f])

-----------------------------------------------------------------------------
(* Specification SpecError: ErrorHandler.handle_error applied to an error  *)
(* of any class carrying any details.                                      *)

ErrorClasses == {"DataFetchError", "CalculationError", "ValidationError",
                 "SystemError", "Exception"}

DetailKeys == {"password", "token", "key", "secret", "api_key", "username",
               "timeout", "Password"}

ErrorOfClass(class) ==
    IF class = "DataFetchError" THEN DataFetchError(Message("failed", None))
    ELSE IF class = "CalculationError" THEN CalculationError(Message("failed", None))
    ELSE IF class = "ValidationError" THEN ValidationError(Message("failed", None))
    ELSE IF class = "SystemError"
    THEN [analytics |-> TRUE, error_type |-> "SYSTEM_ERROR",
          message |-> Message("failed", None)]
    ELSE GenericError(Message("failed", None))

InitError ==
    /\ now = 0
    /\ pc = "start"
    /\ args \in [class : ErrorClasses, details : SUBSET DetailKeys]
    /\ contracts = <<>>
    /\ expiration_data_list = <<>>
    /\ raw_options_data = <<>>
    /\ underlying_price = None
    /\ env = Idle
    /\ result = Idle
    /\ response = Idle

\* ErrorHandler.handle_error(error): the response with the details of its
\* body
HandleError ==
    /\ pc = "start"
    /\ response' = [handle_error(ErrorOfClass(args.class))
                      EXCEPT !.body = HandledDetails(args.class, args.details)]
    /\ pc' = "handled"
    /\ UNCHANGED <<now, args, contracts, expiration_data_list, raw_options_data,
                   underlying_price, env, result>>

NextError == HandleError

SpecError == InitError /\ [][NextError]_vars

\* C22: no error response body contains, in its details map, an entry whose
\* key is password, token, key, secret or api_key, whatever details the
\* raised error carried.
C22_NoSensitiveDetail ==
    (pc = "handled" /\ response.body # Missing) =>
        response.body.keys \cap {"password", "token", "key", "secret", "api_key"} = {}

\* C22 witness: an error carrying a password and a user name was answered
\* with details that still hold the user name
C22_Witness ==
    /\ pc = "handled"
    /\ {"password", "api_key", "username"} \subseteq args.details
    /\ response.body # Missing
    /\ "username" \in response.body.keys

-----------------------------------------------------------------------------
(* Claims on the order of the stages of handler.get_options_analytics *)

AllStages == <<"validate", "market", "options", "process">>

TickerInvalid ==
    validate_ticker_symbol(parse_query_parameters(args)).kind = "raise"

OptionsFetchFailed == fetch_all_option_chains(env.options).kind = "raise"

\* C23: within one invocation of handler.get_options_analytics the stages
\* run in the order validate ticker, fetch market data, fetch option chains,
\* process, and no stage is started after an earlier one has failed: an
\* invalid ticker yields 400 VALIDATION_ERROR with no provider fetch, a failed
\* market-data or options fetch yields 500 DATA_FETCH_ERROR with no
\* processing.
C23_StagesInOrder ==
    pc = "base" =>
        /\ result.stages = SubSeq(AllStages, 1, Len(result.stages))
        /\ TickerInvalid =>
               /\ response.statusCode = 400
               /\ response.errorType = "VALIDATION_ERROR"
               /\ result.stages = <<"validate">>
               /\ result.fetched = NotRun
        /\ (~TickerInvalid /\ env.market.kind = "raise") =>
               /\ response.statusCode = 500
               /\ response.errorType = "DATA_FETCH_ERROR"
               /\ result.stages = <<"validate", "market">>
               /\ result.fetched = NotRun
        /\ (~TickerInvalid /\ env.market.kind = "ok" /\ OptionsFetchFailed) =>
               /\ response.statusCode = 500
               /\ response.errorType = "DATA_FETCH_ERROR"
               /\ result.stages = <<"validate", "market", "options">>
        /\ (Len(result.stages) = 4) =>
               (~TickerInvalid /\ env.market.kind = "ok" /\ ~OptionsFetchFailed)

\* C23 witness: the market data fetch failed for a valid ticker and the
\* request ended there with 500 DATA_FETCH_ERROR
C23_Witness ==
    /\ pc = "base"
    /\ ~TickerInvalid
    /\ env.market.kind = "raise"
    /\ env.options.kind = "ok"
    /\ response.statusCode = 500
    /\ response.errorType = "DATA_FETCH_ERROR"
    /\ result.stages = <<"validate", "market">>

-----------------------------------------------------------------------------
(* Claims on the contracts of the 200 response of handler.get_options_analytics *)

\* a fetched contract with strike > 0, lastPrice > 0, provider IV in
\* (0, 5.0] and moneyness within [0.85, 1.15]
Qualified(c, price) ==
    /\ Gt(c.strike, Num(0))
    /\ c.last_price # None /\ Gt(c.last_price, Num(0))
    /\ c.implied_volatility # None
    /\ Gt(c.implied_volatility, Num(0)) /\ Le(c.implied_volatility, Num(500))
    /\ is_within_moneyness_range(calculate_moneyness(c.strike, price),
                                 DefaultRange.lo, DefaultRange.hi)

\* every qualified contract of the fetched list is among the formatted ones
AllAppear(fetched, formatted, price) ==
    \A i \in 1..Len(fetched) :
        Qualified(fetched[i], price) =>
            \E j \in 1..Len(formatted) : formatted[j].strike = fetched[i].strike

\* C24: in handler.get_options_analytics, every fetched contract with
\* strike > 0, lastPrice > 0, provider IV in (0, 5.0] and moneyness within
\* [0.85, 1.15] that belongs to an expiration selected for a target period
\* (here: an expiration that is in the 200 response) appears in that
\* expiration's calls or puts in the 200 response.
C24_QualifiedContractsAppear ==
    (pc = "base" /\ response.statusCode = 200) =>
        \A i \in 1..Len(result.fetched.val) :
            \A k \in 1..Len(response.body.expirationDates) :
                LET f == result.fetched.val[i]
                    g == response.body.expirationDates[k]
                IN (g.expiration = f.expiration) =>
                       /\ AllAppear(f.calls, g.calls, env.market.val.stock_price)
                       /\ AllAppear(f.puts, g.puts, env.market.val.stock_price)

-----------------------------------------------------------------------------
(* Specification SpecFallback: the options fetch of the optimized handler  *)
(* (lines 226-294) with the provider listing up to MaxFetched expirations; *)
(* the filtered fetch may also fail on its own, as a provider that answers *)
(* the second request but not the first.                                   *)

FallbackExpirations ==
    {IsoStr(14), IsoStr(15), IsoStr(29), IsoStr(31), IsoStr(61), BadStr}

FallbackChain == Ok([calls |-> <<GoodRow>>, puts |-> <<>>])

FallbackProviders ==
    {Raise("Exception"), Ok(<<>>)}
    \cup {Ok(<<[expiration |-> e, chain |-> Raise("Exception")]>>) :
            e \in FallbackExpirations}
    \cup {Ok([i \in 1..Len(ks) |-> [expiration |-> ks[i], chain |-> FallbackChain]]) :
            ks \in DistinctSeqs(FallbackExpirations, MaxFetched)}

InitFallback ==
    /\ now \in 0..MaxTod
    /\ pc = "start"
    /\ args \in [filtered_fails : BOOLEAN]
    /\ contracts = <<>>
    /\ expiration_data_list = <<>>
    /\ raw_options_data = <<>>
    /\ underlying_price = None
    /\ env \in [options : FallbackProviders]
    /\ result = Idle
    /\ response = Idle

\* optimized_handler.get_options_analytics, lines 226-294: the list handed
\* to the processing, or the DataFetchError
FetchOptions ==
    /\ pc = "start"
    /\ result' = FilteredOrFallBack(
                     IF args.filtered_fails THEN Raise("RuntimeError")
                     ELSE fetch_filtered_option_chains(env.options, now),
                     env, now)
    /\ pc' = "fetched"
    /\ UNCHANGED <<now, args, contracts, expiration_data_list, raw_options_data,
                   underlying_price, env, response>>

NextFallback == FetchOptions

SpecFallback == InitFallback /\ [][NextFallback]_vars

FilteredFetchFailed ==
    args.filtered_fails
        \/ fetch_filtered_option_chains(env.options, now).kind = "raise"

UnfilteredFetchGave(all) == all.kind = "ok" /\ Len(all.val) > 0

\* the list is the one the manual target filtering returned
FromManualFilter(list, all) ==
    LET manual == filter_expirations_by_target_periods(all, now).ret
    IN manual.kind = "ok" /\ Len(manual.val) > 0 /\ list = manual.val

\* C25: in the optimized handler, whenever the filtered options fetch fails
\* and the unfiltered fetch returns a non-empty list, the expiration list
\* handed to processing is non-empty and has at most 4 groups, whether it
\* came from manual target filtering or from taking the first 4 fetched
\* expirations; the request fails with DataFetchError only when the
\* unfiltered fetch itself fails or returns nothing.
C25_FallbackListBounded ==
    (pc = "fetched" /\ FilteredFetchFailed) =>
        /\ UnfilteredFetchGave(fetch_all_option_chains(env.options)) =>
               /\ result.kind = "ok"
               /\ Len(result.val) \in 1..4
               /\ \/ FromManualFilter(result.val,
                                      fetch_all_option_chains(env.options).val)
                  \/ result.val = SubSeq(fetch_all_option_chains(env.options).val,
                                         1, Len(result.val))
        /\ result.kind = "raise" =>
               ~UnfilteredFetchGave(fetch_all_option_chains(env.options))

\* C25 witness: five expirations were listed, one of them unparsable, the
\* filtered fetch failed and the first four went to the processing
C25_Witness ==
    /\ pc = "fetched"
    /\ FilteredFetchFailed
    /\ env.options.kind = "ok"
    /\ Len(env.options.val) = 5
    /\ result.kind = "ok"
    /\ Len(result.val) = 4
    /\ ~FromManualFilter(result.val, fetch_all_option_chains(env.options).val)

-----------------------------------------------------------------------------
(* Specification SpecDistinct: filter_expirations_by_target_periods applied *)
(* to a list with one group per expiration string, as both of its callers  *)
(* build it (from the keys of a dict, from the provider's list of dates).  *)

DistinctGroups ==
    {[i \in 1..Len(ks) |-> ExpirationData(ks[i], <<SampleCall>>, <<>>)] :
        ks \in DistinctSeqs(ExpStrings, MaxFetched)}

InitDistinct ==
    /\ now \in 0..MaxTod
    /\ pc = "start"
    /\ expiration_data_list \in DistinctGroups
    /\ args = Idle
    /\ contracts = <<>>
    /\ raw_options_data = <<>>
    /\ underlying_price = None
    /\ env = Idle
    /\ result = Idle
    /\ response = Idle

NextDistinct == FilterTargets

SpecDistinct == InitDistinct /\ [][NextDistinct]_vars

\* what find_closest_expiration_dates selected for the list that was filtered
Selected == find_closest_expiration_dates(AllExpirations(expiration_data_list),
                                          now, now).val

\* periods i < j selected the same date
Coincide(i, j) == i < j /\ Selected[i].exp = Selected[j].exp

\* the last period that selected date e
LastPeriod(e) ==
    CHOOSE k \in 1..4 : /\ Selected[k].exp = e
                        /\ \A m \in (k + 1)..4 : Selected[m].exp # e

\* C26: when two or more target periods select the same expiration date,
\* filter_expirations_by_target_periods returns the group of that date
\* exactly once, labelled with the last of those periods in the order 2w, 1m,
\* 6w, 2m, so the result has fewer than 4 groups and no group carries an
\* overwritten label.
C26_LastLabelWins ==
    (pc = "filtered" /\ result.kind = "ok") =>
        \A i, j \in 1..4 : Coincide(i, j) =>
            /\ \A g \in 1..Len(expiration_data_list) :
                   expiration_data_list[g].expiration = Selected[i].exp =>
                       /\ Count(result.val, expiration_data_list[g]) = 1
                       /\ expiration_data_list[g].expiration_label =
                              Str(Selected[LastPeriod(Selected[i].exp)].label)
            /\ Len(result.val) < 4
            /\ \A k \in 1..Len(result.val) :
                   result.val[k].expiration_label # Str(Selected[i].label)

\* C26 witness: out of five groups three were returned, the second of them
\* selected by both 1m and 6w and labelled 6w
C26_Witness ==
    /\ pc = "filtered" /\ result.kind = "ok"
    /\ Len(expiration_data_list) = 5
    /\ Len(result.val) = 3
    /\ Coincide(2, 3)
    /\ result.val[2].expiration = Selected[2].exp
    /\ result.val[2].expiration_label = Str("6w")

-----------------------------------------------------------------------------
(* Specification SpecBase: find_closest_expiration_dates called with a     *)
(* base date of the caller's choice.                                       *)

\* base dates: today at midnight, tomorrow, ten days ahead
BaseDates == {0, TicksPerDay, 10 * TicksPerDay}

InitBase ==
    /\ now \in 0..MaxTod
    /\ pc = "start"
    /\ expiration_data_list \in DistinctGroups
    /\ args \in [base_date : BaseDates]
    /\ contracts = <<>>
    /\ raw_options_data = <<>>
    /\ underlying_price = None
    /\ env = Idle
    /\ result = Idle
    /\ response = Idle

\* find_closest_expiration_dates(all_expirations, base_date)
FindClosestFrom ==
    /\ pc = "start"
    /\ result' = find_closest_expiration_dates(
                     AllExpirations(expiration_data_list), args.base_date, now)
    /\ pc' = "found_from"
    /\ UNCHANGED <<now, args, contracts, expiration_data_list, raw_options_data,
                   underlying_price, env, response>>

NextBase == FindClosestFrom

SpecBase == InitBase /\ [][NextBase]_vars

\* C27: the daysToExpiration that find_closest_expiration_dates returns for
\* each label equals the whole-day difference between the selected expiration
\* and the base date that was used to compute the target dates, clamped at
\* 0, for any base date passed by the caller.
C27_DaysFromBaseDate ==
    (pc = "found_from" /\ result.kind = "ok") =>
        \A i \in 1..Len(result.val) :
            result.val[i].days =
                Max(result.val[i].exp.day - (args.base_date \div TicksPerDay), 0)

-----------------------------------------------------------------------------
(* Claims on the frame of filter_expirations_by_target_periods, SpecSel *)

\* C28: if filter_expirations_by_target_periods raises, it has not modified
\* any input group: every group's expirationLabel and daysToExpiration are as
\* they were before the call, so the list its caller falls back to carries no
\* partially applied labels.
C28_RaiseLeavesInputUntouched ==
    [][(pc = "start" /\ pc' = "filtered" /\ result'.kind = "raise")
          => expiration_data_list' = expiration_data_list]_vars

\* C28 witness: the call raised on a list that held a parsable expiration
\* next to an unparsable one, and no group is labelled
C28_Witness ==
    /\ pc = "filtered" /\ result.kind = "raise"
    /\ Len(expiration_data_list) >= 2
    /\ \E i \in 1..Len(expiration_data_list) : expiration_data_list[i].expiration.ok
    /\ \A i \in 1..Len(expiration_data_list) :
           /\ expiration_data_list[i].expiration_label = None
           /\ expiration_data_list[i].days_to_expiration = None

-----------------------------------------------------------------------------
(* Specification SpecInvoke: one invocation of either Lambda handler from  *)
(* its first line, on any event, with the provider answering in any way.   *)

RequestContexts == {[k |-> "dict"], None, Missing}

InitInvoke ==
    /\ now = 0
    /\ pc = "start"
    /\ args \in [ticker : EventTickers, requestContext : RequestContexts]
    /\ contracts = <<>>
    /\ expiration_data_list = <<>>
    /\ raw_options_data = <<>>
    /\ underlying_price = None
    /\ env \in [market : ProviderMarkets, enhanced_market : ProviderEnhancedMarkets,
                options : ProviderOptions]
    /\ result = Idle
    /\ response = Idle

\* what the caller of a handler gets: the exception of lines 101-102, which
\* stand before the try block, or the response
Returned(logger, r) == IF logger.kind = "raise" THEN logger ELSE r.response

\* handler.get_options_analytics(event, context), lines 89-251
InvokeBasic ==
    /\ pc = "start"
    /\ response' = Returned(create_request_logger(args),
                            get_options_analytics(args, env, now))
    /\ pc' = "returned"
    /\ UNCHANGED <<now, args, contracts, expiration_data_list, raw_options_data,
                   underlying_price, env, result>>

\* optimized_handler.get_options_analytics(event, context), lines 128-488
InvokeOptimized ==
    /\ pc = "start"
    /\ \E outcome \in {"return", "raise"} :
          response' = Returned(create_request_logger(args),
                          optimized_get_options_analytics(args, env, now, outcome))
    /\ pc' = "returned"
    /\ UNCHANGED <<now, args, contracts, expiration_data_list, raw_options_data,
                   underlying_price, env, result>>

NextInvoke == InvokeBasic \/ InvokeOptimized

SpecInvoke == InitInvoke /\ [][NextInvoke]_vars

\* C29: every invocation of the Lambda handler (basic or optimized) returns a
\* response envelope with statusCode in {200, 400, 500} and never propagates
\* an exception to the caller; an exception that is not one of the typed
\* errors is reported as 500 SYSTEM_ERROR.
C29_AlwaysAnEnvelope ==
    pc = "returned" =>
        /\ "statusCode" \in DOMAIN response
        /\ response.statusCode \in {200, 400, 500}
        /\ response.errorType = "SYSTEM_ERROR" => response.statusCode = 500

\* a valid zero-padded YYYY-MM-DD string
ZeroPadded(e) == e.ok /\ e.lex = e.day

\* C30: for any non-empty list of groups with pairwise distinct, valid
\* zero-padded YYYY-MM-DD expiration strings,
\* filter_expirations_by_target_periods returns a non-empty list of between 1
\* and 4 of the input groups, each at most once, so its callers never see an
\* empty result.
C30_OneToFourGroups ==
    (/\ pc = "filtered"
     /\ Len(expiration_data_list) > 0
     /\ \A i \in 1..Len(expiration_data_list) :
            ZeroPadded(expiration_data_list[i].expiration))
    => /\ result.kind = "ok"
       /\ Len(result.val) \in 1..4
       /\ \A k \in 1..Len(result.val) :
              /\ Count(expiration_data_list, result.val[k]) = 1
              /\ Count(result.val, result.val[k]) = 1

\* C30 witness: five zero-padded expirations, four of them returned
C30_Witness ==
    /\ pc = "filtered"
    /\ Len(expiration_data_list) = 5
    /\ \A i \in 1..5 : ZeroPadded(expiration_data_list[i].expiration)
    /\ result.kind = "ok"
    /\ Len(result.val) = 4

====
